---- MODULE Spec2Model ----
(***************************************************************************)
(* Address space engine of nautobot (nautobot/ipam/models.py): the Prefix  *)
(* and IPAddress tables, Prefix.save / Prefix.delete with their            *)
(* reparenting passes, IPAddress.save, and Prefix.get_available_ips.       *)
(*                                                                         *)
(* Addresses are integers.  The model keeps the real prefix lengths of     *)
(* each IP version (0..32 and 0..128) and explores the window of the       *)
(* address space made of the lowest 2^HostBits addresses, so the prefixes  *)
(* of the model are the /(32-HostBits)../32 and /(128-HostBits)../128      *)
(* networks inside that window.                                            *)
(***************************************************************************)
EXTENDS Integers, FiniteSets, Sequences, TLC

VARIABLES prefixes, ips, last, available, utilization, reparsed, nat_result,
          cables, cable_ends, cable_last, sessions,
          applied, cable_terminations, cableend_unique, legacy_cables

\* What the query calls returned (they write nothing to the tables).
results == <<available, utilization, reparsed, nat_result>>

\* The tables of the address space engine and the outcome of its last call.
ipam == <<prefixes, ips, last>>

\* The migrations applied to the database, the CableTermination table, the
\* unique_together of the CableEnd table in the database, and the Cable rows
\* as they were before the migrations (kept for reference).
migration == <<applied, cable_terminations, cableend_unique, legacy_cables>>

\* The tables of the cable topology engine and the outcome of its last call.
dcim == <<cables, cable_ends, cable_last, migration>>

vars == <<ipam, results, dcim, sessions>>

\* ------------------------------------------------------------------ bounds
HostBits == 2
MaxPrefixes == 3
MaxIPs == 2
MaxCables == 2
\* Cap of a session's count of super().save() / super().delete() calls.
MaxAttempts == 3

\* --------------------------------------------------------------- constants
TYPE_NETWORK == "network"
TYPE_POOL == "pool"
TYPE_CONTAINER == "container"
PrefixTypeChoices == {TYPE_NETWORK, TYPE_POOL, TYPE_CONTAINER}
IPAddressVersionChoices == {4, 6}

\* Two namespaces: the default "Global" one (get_default_namespace) and another.
Namespaces == {"Global", "Other"}

RECURSIVE Pow2(_)
Pow2(n) == IF n = 0 THEN 1 ELSE 2 * Pow2(n - 1)

\* Width in bits of an address of the given IP version.
Bits(version) == IF version = 4 THEN 32 ELSE 128

\* The addresses and prefix lengths of the explored window.
Addrs == 0..(Pow2(HostBits) - 1)
Lengths(version) == (Bits(version) - HostBits)..Bits(version)

\* The null reference (a parent_id that IS NULL, a namespace that is None).
NoNamespace == "None"
None == [namespace |-> NoNamespace, ip_version |-> 0, network |-> 0, prefix_length |-> 0]

\* The identity of a Prefix row.  The primary key is a UUID; the table's
\* unique_together makes (namespace, network, prefix_length) identify a row,
\* and the binary network value carries the IP version.
PrefixId(p) ==
    [namespace |-> p.namespace, ip_version |-> p.ip_version,
     network |-> p.network, prefix_length |-> p.prefix_length]

\* ------------------------------------------------------- Prefix (instance)
\* netaddr.IPNetwork(literal): the network address clears the host bits, the
\* "broadcast" is the last address of the network (also for /31 and /32).
_deconstruct_prefix(version, ip, prefixlen) ==
    LET sz == Pow2(Bits(version) - prefixlen)
        net == ip - (ip % sz)
    IN [network |-> net, broadcast |-> net + sz - 1,
        prefix_length |-> prefixlen, ip_version |-> version]

\* Prefix(prefix=literal, namespace=ns, type=t): parent defaults to null.
NewPrefix(ns, version, ip, prefixlen, type) ==
    LET d == _deconstruct_prefix(version, ip, prefixlen)
    IN [namespace |-> ns, ip_version |-> d.ip_version, network |-> d.network,
        broadcast |-> d.broadcast, prefix_length |-> d.prefix_length,
        type |-> type, parent |-> None]

\* supernets() without the namespace=self.namespace filter.
supernets_AnyNamespace(self, rows) ==
    {q \in rows :
        /\ q.ip_version = self.ip_version
        /\ q.prefix_length <= self.prefix_length
        /\ q.network <= self.network
        /\ q.broadcast >= self.broadcast}

\* Prefix.supernets() of an instance against the rows of the table `rows`
\* (the rows whose id differs from the instance's id).
supernets(self, rows) ==
    {q \in rows :
        /\ q.ip_version = self.ip_version
        /\ q.prefix_length <= self.prefix_length
        /\ q.network <= self.network
        /\ q.broadcast >= self.broadcast
        /\ q.namespace = self.namespace}

\* max(supernets, key=operator.attrgetter("prefix_length"))
MaxByPrefixLength(S) ==
    CHOOSE q \in S : \A r \in S : r.prefix_length <= q.prefix_length

\* reparent_subnets() without the parent_id=self.parent_id filter.
reparent_subnets_AnyParent(self, rows) ==
    {IF /\ PrefixId(q) # PrefixId(self)
        /\ q.prefix_length > self.prefix_length
        /\ q.ip_version = self.ip_version
        /\ q.network >= self.network
        /\ q.broadcast <= self.broadcast
        /\ q.namespace = self.namespace
     THEN [q EXCEPT !.parent = PrefixId(self)]
     ELSE q : q \in rows}

\* reparent_subnets() without the ip_version=self.ip_version filter.
reparent_subnets_AnyVersion(self, rows) ==
    {IF /\ PrefixId(q) # PrefixId(self)
        /\ q.parent = self.parent
        /\ q.prefix_length > self.prefix_length
        /\ q.network >= self.network
        /\ q.broadcast <= self.broadcast
        /\ q.namespace = self.namespace
     THEN [q EXCEPT !.parent = PrefixId(self)]
     ELSE q : q \in rows}

\* Prefix.reparent_subnets(): the bulk update of the Prefix table.
reparent_subnets(self, rows) ==
    {IF /\ PrefixId(q) # PrefixId(self)
        /\ q.parent = self.parent
        /\ q.prefix_length > self.prefix_length
        /\ q.ip_version = self.ip_version
        /\ q.network >= self.network
        /\ q.broadcast <= self.broadcast
        /\ q.namespace = self.namespace
     THEN [q EXCEPT !.parent = PrefixId(self)]
     ELSE q : q \in rows}

\* Prefix.reparent_ips(): the bulk update of the IPAddress table.
reparent_ips(self, rows) ==
    {IF a.parent = self.parent
     THEN [a EXCEPT !.parent = PrefixId(self)]
     ELSE a : a \in rows}

\* The Prefix table without its unique_together constraint.
PrefixUniqueViolation_Unconstrained(self, rows) == FALSE

\* unique_together = ["namespace", "network", "prefix_length"]
PrefixUniqueViolation(self, rows) ==
    \E q \in rows : PrefixId(q) = PrefixId(self)

\* ------------------------------------------------------------- IPAddress
\* PrefixQuerySet.get_closest_parent(host, namespace): the prefixes of the
\* namespace (and of the host's IP version) whose range contains the host.
ClosestParentCandidates(host, version, namespace, rows) ==
    {q \in rows :
        /\ q.namespace = namespace
        /\ q.ip_version = version
        /\ q.network <= host
        /\ q.broadcast >= host}

\* The most specific of them.
get_closest_parent(host, version, namespace, rows) ==
    MaxByPrefixLength(ClosestParentCandidates(host, version, namespace, rows))

\* __init__ falling back to the default namespace when nothing is given.
InitNamespace_Default(nsArg, parentArg) ==
    IF nsArg # NoNamespace THEN nsArg
    ELSE IF parentArg # None THEN parentArg.namespace ELSE "Global"

\* IPAddress.__init__: the namespace is the one given, else the given parent's.
InitNamespace(nsArg, parentArg) ==
    IF nsArg = NoNamespace /\ parentArg # None THEN parentArg.namespace ELSE nsArg

\* unique_together = ["parent", "host"] (the binary host carries the version).
IPKey(a) == [parent |-> a.parent, host |-> a.host, ip_version |-> a.ip_version]
\* Writing the rows `written` beside the rows `others` breaks the constraint.
IPUniqueViolation(written, others) ==
    \E a \in written, b \in others : IPKey(a) = IPKey(b)

\* The rows related to a prefix through a PROTECT foreign key.
ChildPrefixes(D, rows) == {q \in rows : q.parent = PrefixId(D)}
ChildIPs(D, rows) == {a \in rows : a.parent = PrefixId(D)}

\* The update of Prefix.delete() writing a null parent instead of self.parent.
UpdateParent_Null(rows, protected, parent) ==
    {IF r \in protected THEN [r EXCEPT !.parent = None] ELSE r : r \in rows}

\* protected_objects.update(parent=self.parent) in Prefix.delete().
UpdateParent(rows, protected, parent) ==
    {IF r \in protected THEN [r EXCEPT !.parent = parent] ELSE r : r \in rows}

\* ---------------------------------------------------- get_available_ips
\* get_available_ips() treating only /32 (not /31) as fully usable.
get_available_ips_Only32(self, rows) ==
    LET prefix == self.network..self.broadcast
        child_ips == {a.host : a \in ChildIPs(self, rows)}
        available_ips == prefix \ child_ips
    IN IF \/ self.ip_version = 6
          \/ self.type = TYPE_POOL
          \/ self.ip_version = 4 /\ self.prefix_length > 31
       THEN available_ips
       ELSE available_ips \ {self.network, self.broadcast}

\* Prefix.get_available_ips(): the IPSet of the prefix minus the hosts of
\* the child addresses, minus the first and last address for "normal" IPv4.
get_available_ips(self, rows) ==
    LET prefix == self.network..self.broadcast
        child_ips == {a.host : a \in ChildIPs(self, rows)}
        available_ips == prefix \ child_ips
    IN IF \/ self.ip_version = 6
          \/ self.type = TYPE_POOL
          \/ self.ip_version = 4 /\ self.prefix_length >= 31
       THEN available_ips
       ELSE available_ips \ {self.network, self.broadcast}

\* ------------------------------------------------------- get_utilization
\* Prefix.subnets() with the defaults direct=False, include_self=False,
\* which is what descendants() returns.
subnets(self, rows) ==
    {q \in rows :
        /\ PrefixId(q) # PrefixId(self)
        /\ q.ip_version = self.ip_version
        /\ q.prefix_length >= self.prefix_length
        /\ q.network >= self.network
        /\ q.broadcast <= self.broadcast
        /\ q.namespace = self.namespace}

\* nautobot.core.utils.data.UtilizationData, a (numerator, denominator) pair.
UtilizationData(numerator, denominator) ==
    [numerator |-> numerator, denominator |-> denominator]

\* self.prefix.size, the number of addresses of the network.
PrefixSize(self) == Pow2(Bits(self.ip_version) - self.prefix_length)

\* Prefix.get_utilization(): for a container the size of the IPSet of its
\* descendants over its own size; otherwise the prefix size (less 2 for a
\* "normal" IPv4 prefix) minus the size of get_available_ips(), over it.
get_utilization(self, prefixRows, ipRows) ==
    IF self.type = TYPE_CONTAINER
    THEN UtilizationData(
            Cardinality(UNION {q.network..q.broadcast : q \in subnets(self, prefixRows)}),
            PrefixSize(self))
    ELSE LET prefix_size ==
                IF /\ self.ip_version = 4
                   /\ self.prefix_length < 31
                   /\ self.type # TYPE_POOL
                THEN PrefixSize(self) - 2
                ELSE PrefixSize(self)
             child_count == prefix_size - Cardinality(get_available_ips(self, ipRows))
         IN UtilizationData(child_count, prefix_size)

\* ------------------------------------------------- CIDR strings (netaddr)
\* Text is a sequence of one-character strings.
HexDigits ==
    <<"0", "1", "2", "3", "4", "5", "6", "7", "8", "9", "a", "b", "c", "d", "e", "f">>

DigitValue(ch) == CHOOSE v \in 0..15 : HexDigits[v + 1] = ch

\* The digits of a natural number in the given base.
RECURSIVE IntToText(_, _)
IntToText(n, base) ==
    IF n < base
    THEN <<HexDigits[n + 1]>>
    ELSE IntToText(n \div base, base) \o <<HexDigits[(n % base) + 1]>>

\* The number a digit string denotes in the given base.
RECURSIVE TextToInt(_, _)
TextToInt(text, base) ==
    IF text = <<>>
    THEN 0
    ELSE TextToInt(SubSeq(text, 1, Len(text) - 1), base) * base
            + DigitValue(text[Len(text)])

\* text.split(sep)
RECURSIVE Split(_, _)
Split(text, sep) ==
    IF \A i \in 1..Len(text) : text[i] # sep
    THEN <<text>>
    ELSE LET i == CHOOSE k \in 1..Len(text) :
                    /\ text[k] = sep
                    /\ \A j \in 1..(k - 1) : text[j] # sep
         IN <<SubSeq(text, 1, i - 1)>> \o Split(SubSeq(text, i + 1, Len(text)), sep)

\* str(netaddr.IPAddress): dotted decimal for IPv4; for IPv6 the compact
\* form, which for the addresses below 2^16 is "::" followed by the
\* hexadecimal value ("::" alone for zero).
AddrText(version, value) ==
    IF version = 4
    THEN IntToText((value \div 16777216) % 256, 10) \o <<".">>
            \o IntToText((value \div 65536) % 256, 10) \o <<".">>
            \o IntToText((value \div 256) % 256, 10) \o <<".">>
            \o IntToText(value % 256, 10)
    ELSE IF value = 0 THEN <<":", ":">> ELSE <<":", ":">> \o IntToText(value, 16)

\* netaddr.IPAddress(text): the version from the notation, then the value.
ParseAddr(text) ==
    IF \E i \in 1..Len(text) : text[i] = ":"
    THEN LET groups == Split(text, ":")
         IN [version |-> 6, value |-> TextToInt(groups[Len(groups)], 16)]
    ELSE LET octets == Split(text, ".")
         IN [version |-> 4,
             value |-> TextToInt(octets[1], 10) * 16777216
                        + TextToInt(octets[2], 10) * 65536
                        + TextToInt(octets[3], 10) * 256
                        + TextToInt(octets[4], 10)]

\* The literal "ip/prefixlen" a caller passes as Prefix(prefix=...).
CidrLiteral(version, ip, prefixlen) ==
    AddrText(version, ip) \o <<"/">> \o IntToText(prefixlen, 10)

\* cidr_str rendering the network address alone.
cidr_str_NetworkOnly(self) == AddrText(self.ip_version, self.network)

\* Prefix.cidr_str: f"{self.network}/{self.prefix_length}"
cidr_str(self) ==
    AddrText(self.ip_version, self.network) \o <<"/">> \o IntToText(self.prefix_length, 10)

\* The prefix setter on a string: netaddr.IPNetwork(text), whose prefix
\* length defaults to the address width when the text has no "/", then
\* _deconstruct_prefix.
ParsePrefix(text) ==
    LET parts == Split(text, "/")
        addr == ParseAddr(parts[1])
        prefixlen == IF Len(parts) > 1 THEN TextToInt(parts[2], 10) ELSE Bits(addr.version)
    IN _deconstruct_prefix(addr.version, addr.value, prefixlen)

\* ---------------------------------------------------------------- results
Ok == "ok"
IntegrityError == "IntegrityError"
ProtectedError == "ProtectedError"
ProtectedErrorOrphan == "ProtectedError: child IPAddress objects would no longer have a parent"
DoesNotExist == "DoesNotExist"
ValidationErrorParent == "ValidationError{parent}"
AttributeError == "AttributeError"

\* The last call and how it ended; `model` is the protected model a
\* Prefix.delete() met ("none" elsewhere).
Result(op, err, model) == [op |-> op, err |-> err, model |-> model]

NoOp == Result("none", Ok, "none")

\* `available` holds what the last get_available_ips() call returned.
NotCalled == [called |-> FALSE, prefix |-> None, ips |-> {}]

\* `utilization` holds what the last get_utilization() call returned.
NoUtilization ==
    [called |-> FALSE, prefix |-> None, data |-> UtilizationData(0, 0)]

\* `reparsed` holds the CIDR string of the last prefix read through the
\* prefix property and the fields the prefix setter derived from it.
NotParsed ==
    [called |-> FALSE, prefix |-> None, literal_ip |-> 0, text |-> <<>>,
     fields |-> [network |-> 0, broadcast |-> 0, prefix_length |-> 0, ip_version |-> 0]]

\* ------------------------------------------------- nat_inside / nat_outside
\* IPAddress.nat_inside is a nullable foreign key to another IPAddress
\* (related_name nat_outside_list).  A row's nat_inside holds the reference
\* of the inside address, or NoIP for null.
NoIP == [host |-> -1, ip_version |-> 0, parent |-> None]
IPRef(a) == IPKey(a)

\* self.nat_outside_list: the addresses whose nat_inside is self.
nat_outside_list(self, rows) == {a \in rows : a.nat_inside = IPRef(self)}

\* QuerySet.first(): the first row in the model's ordering, or None.
First(S) == IF S = {} THEN NoIP ELSE IPRef(CHOOSE a \in S : \A b \in S : a.host <= b.host)

NATOutsideMultipleObjectsReturned == "NATOutsideMultipleObjectsReturned"
TypeError == "TypeError"

\* What a call of the nat_outside getter or setter did: the object it was
\* called on, the error raised and the object the error carries, and the
\* value the getter returned.
NatCall(op, self, err, obj, value) ==
    [op |-> op, self |-> self, err |-> err, obj |-> obj, value |-> value]
NoNatCall == NatCall("none", NoIP, Ok, NoIP, NoIP)

\* The nat_outside getter returning the first referencing address unchecked.
nat_outside_First(self, rows) ==
    NatCall("get", IPRef(self), Ok, NoIP, First(nat_outside_list(self, rows)))

\* The nat_outside getter (IPAddress.nat_outside, the property).
nat_outside(self, rows) ==
    IF Cardinality(nat_outside_list(self, rows)) > 1
    THEN NatCall("get", IPRef(self), NATOutsideMultipleObjectsReturned, IPRef(self), NoIP)
    ELSE NatCall("get", IPRef(self), Ok, NoIP, First(nat_outside_list(self, rows)))

\* RelatedManager.set([value]) on the nullable foreign key: the referencing
\* rows other than value get a null nat_inside, and value references self.
\* A value that is not an IPAddress (None) fails in add() and the
\* transaction of set() is rolled back.
nat_outside_list_set(self, value, rows) ==
    IF value = NoIP
    THEN rows
    ELSE {IF IPRef(a) = value THEN [a EXCEPT !.nat_inside = IPRef(self)]
          ELSE IF a.nat_inside = IPRef(self) THEN [a EXCEPT !.nat_inside = NoIP]
          ELSE a : a \in rows}

\* The nat_outside setter (IPAddress.nat_outside.setter).
nat_outside_setter(self, value, rows) ==
    IF Cardinality(nat_outside_list(self, rows)) > 1
    THEN [ips |-> rows,
          call |-> NatCall("set", IPRef(self), NATOutsideMultipleObjectsReturned, IPRef(self), NoIP)]
    ELSE [ips |-> nat_outside_list_set(self, value, rows),
          call |-> NatCall("set", IPRef(self), IF value = NoIP THEN TypeError ELSE Ok, NoIP, NoIP)]

\* ================================================= cable topology engine
\* A typed reference (content type, id) as a Cable's termination_a / _b holds.
Ref(t) == [type |-> t.model, id |-> t.id]

NoDevice == "None"
NoRearPort == 0

\* The terminations that exist: a connectable and a virtual Interface, a
\* FrontPort with its RearPort, a second RearPort with another number of
\* positions, a CircuitTermination at a location and one bound to a provider
\* network, and a PowerPort.  Device components carry their device (their
\* own or their module's); a circuit termination has neither.
Terminations ==
    {[id |-> 1, model |-> "interface", type |-> "1000base-t", rear_port |-> NoRearPort,
      positions |-> 0, provider_network |-> FALSE, device |-> "dev1"],
     [id |-> 2, model |-> "interface", type |-> "virtual", rear_port |-> NoRearPort,
      positions |-> 0, provider_network |-> FALSE, device |-> "dev1"],
     [id |-> 3, model |-> "frontport", type |-> "8p8c", rear_port |-> 4,
      positions |-> 0, provider_network |-> FALSE, device |-> "dev2"],
     [id |-> 4, model |-> "rearport", type |-> "8p8c", rear_port |-> NoRearPort,
      positions |-> 2, provider_network |-> FALSE, device |-> "dev2"],
     [id |-> 5, model |-> "rearport", type |-> "8p8c", rear_port |-> NoRearPort,
      positions |-> 4, provider_network |-> FALSE, device |-> "dev1"],
     [id |-> 6, model |-> "circuittermination", type |-> "", rear_port |-> NoRearPort,
      positions |-> 0, provider_network |-> FALSE, device |-> NoDevice],
     [id |-> 7, model |-> "circuittermination", type |-> "", rear_port |-> NoRearPort,
      positions |-> 0, provider_network |-> TRUE, device |-> NoDevice],
     [id |-> 8, model |-> "powerport", type |-> "iec-60320-c14", rear_port |-> NoRearPort,
      positions |-> 0, provider_network |-> FALSE, device |-> "dev1"]}

\* The references a caller can pass: one per termination, and an id that no
\* Interface has.
DanglingRef == [type |-> "interface", id |-> 0]
Refs == {Ref(t) : t \in Terminations} \cup {DanglingRef}

\* A reference whose termination type was set to None, and the references
\* an edit of a stored cable can assign.
NoContentType == "None"
UntypedRef == [type |-> NoContentType, id |-> 1]
EditRefs == Refs \cup {UntypedRef}

\* termination_a_type.model_class().objects.get(pk=termination_a_id) succeeds.
Exists(ref) == \E t \in Terminations : t.id = ref.id /\ t.model = ref.type

\* The GenericForeignKey: the object a reference resolves to.
Termination(ref) == CHOOSE t \in Terminations : t.id = ref.id /\ t.model = ref.type

\* nautobot.dcim.constants.NONCONNECTABLE_IFACE_TYPES (virtual and wireless).
NONCONNECTABLE_IFACE_TYPES == {"virtual", "lag", "bridge", "ieee802.11a"}

\* nautobot.dcim.constants.COMPATIBLE_TERMINATION_TYPES
COMPATIBLE_TERMINATION_TYPES ==
    [type_a \in {"circuittermination", "consoleport", "consoleserverport", "interface",
                 "frontport", "powerfeed", "poweroutlet", "powerport", "rearport"} |->
        CASE type_a = "circuittermination" ->
                {"interface", "frontport", "rearport", "circuittermination"}
          [] type_a = "consoleport" -> {"consoleserverport", "frontport", "rearport"}
          [] type_a = "consoleserverport" -> {"consoleport", "frontport", "rearport"}
          [] type_a = "interface" ->
                {"interface", "circuittermination", "frontport", "rearport"}
          [] type_a \in {"frontport", "rearport"} ->
                {"consoleport", "consoleserverport", "interface", "frontport",
                 "rearport", "circuittermination"}
          [] type_a = "powerfeed" -> {"powerport"}
          [] type_a = "poweroutlet" -> {"powerport"}
          [] type_a = "powerport" -> {"poweroutlet", "powerfeed"}]

\* Cable.length is a nullable PositiveSmallIntegerField; the units offered
\* are "" (blank) and metres.
NoLength == -1
CableLengths == {NoLength, 0, 1}
LengthUnits == {"", "m"}

\* nautobot.core.utils.data.to_meters for a length in metres.
to_meters(length, unit) == length

NoCable == 0

\* termination.cable: the cable of the termination's CableEnd, if it has one.
CableOf(t, endRows) ==
    IF \E e \in endRows : e.cable_termination = t.id
    THEN (CHOOSE e \in endRows : e.cable_termination = t.id).cable
    ELSE NoCable

\* The outcome of Cable.clean(): no error, or a ValidationError that is a
\* dict keyed by a field (key), or a bare message, which names no field and
\* which full_clean() files under NON_FIELD_ERRORS (key = NoKey).
ValidationError == "ValidationError"
NoKey == "__all__"
Passed(length_unit) == [err |-> Ok, key |-> NoKey, msg |-> "", length_unit |-> length_unit]
Invalid(key, msg) == [err |-> ValidationError, key |-> key, msg |-> msg, length_unit |-> ""]

MsgNoTypeA == "Termination A type has not been specified"
MsgNoTypeB == "Termination B type has not been specified"
MsgInvalidId == "Invalid ID for type"
MsgModified == "Cable termination points may not be modified"
MsgNonConnectable == "Cables cannot be terminated to such interfaces"
MsgIncompatible == "Incompatible termination types"
MsgPositions == "Both terminations must have the same number of positions"
MsgItself == "Cannot connect to itself"
MsgFrontRear == "A front port cannot be connected to it corresponding rear port"
MsgProviderNetwork == "Circuit terminations attached to a provider network may not be cabled"
MsgHasCable == "already has a cable attached"
MsgUnit == "Must specify a unit when setting a cable length"

\* ------------------------------------------------------------ Cable.clean
\* "Validate that termination A exists", "... B exists".
CheckTerminationsExist(self) ==
    IF self.termination_a.type = NoContentType THEN Invalid(NoKey, MsgNoTypeA)
    ELSE IF ~Exists(self.termination_a) THEN Invalid("termination_a", MsgInvalidId)
    ELSE IF self.termination_b.type = NoContentType THEN Invalid(NoKey, MsgNoTypeB)
    ELSE IF ~Exists(self.termination_b) THEN Invalid("termination_b", MsgInvalidId)
    ELSE Passed(self.length_unit)

\* "If editing an existing Cable instance, check that neither termination
\* has been modified."
CheckTerminationsNotModified(self, cableRows) ==
    IF \E c \in cableRows : c.pk = self.pk
    THEN LET existing_obj == CHOOSE c \in cableRows : c.pk = self.pk
         IN IF self.termination_a # existing_obj.termination_a
            THEN Invalid("termination_a", MsgModified)
            ELSE IF self.termination_b # existing_obj.termination_b
            THEN Invalid("termination_b", MsgModified)
            ELSE Passed(self.length_unit)
    ELSE Passed(self.length_unit)

\* "Validate interface types"
CheckInterfaceTypes(self) ==
    LET type_a == self.termination_a.type
        type_b == self.termination_b.type
    IN IF type_a = "interface" /\ Termination(self.termination_a).type \in NONCONNECTABLE_IFACE_TYPES
       THEN Invalid("termination_a_id", MsgNonConnectable)
       ELSE IF type_b = "interface" /\ Termination(self.termination_b).type \in NONCONNECTABLE_IFACE_TYPES
       THEN Invalid("termination_b_id", MsgNonConnectable)
       ELSE Passed(self.length_unit)

\* The compatibility check left out.
CheckCompatible_Skipped(self) == Passed(self.length_unit)

\* "Check that termination types are compatible"
CheckCompatible(self) ==
    IF self.termination_b.type \notin COMPATIBLE_TERMINATION_TYPES[self.termination_a.type]
    THEN Invalid(NoKey, MsgIncompatible)
    ELSE Passed(self.length_unit)

\* "Check that two connected RearPorts have the same number of positions
\* (if both are >1)"
CheckPositions(self) ==
    LET a == Termination(self.termination_a)
        b == Termination(self.termination_b)
    IN IF /\ a.model = "rearport" /\ b.model = "rearport"
          /\ a.positions > 1 /\ b.positions > 1
          /\ a.positions # b.positions
       THEN Invalid(NoKey, MsgPositions)
       ELSE Passed(self.length_unit)

\* "A termination point cannot be connected to itself"
CheckItself(self) ==
    IF Termination(self.termination_a) = Termination(self.termination_b)
    THEN Invalid(NoKey, MsgItself)
    ELSE Passed(self.length_unit)

\* The front/rear check looking at termination A's rear_port only.
CheckFrontRear_SideAOnly(self) ==
    LET a == Termination(self.termination_a)
        b == Termination(self.termination_b)
    IN IF /\ self.termination_a.type \in {"frontport", "rearport"}
          /\ self.termination_b.type \in {"frontport", "rearport"}
          /\ a.rear_port = b.id
       THEN Invalid(NoKey, MsgFrontRear)
       ELSE Passed(self.length_unit)

\* "A front port cannot be connected to its corresponding rear port"
CheckFrontRear(self) ==
    LET a == Termination(self.termination_a)
        b == Termination(self.termination_b)
    IN IF /\ self.termination_a.type \in {"frontport", "rearport"}
          /\ self.termination_b.type \in {"frontport", "rearport"}
          /\ \/ a.rear_port = b.id
             \/ b.rear_port = a.id
       THEN Invalid(NoKey, MsgFrontRear)
       ELSE Passed(self.length_unit)

\* The provider-network check looking at termination A only.
CheckProviderNetwork_SideAOnly(self) ==
    IF /\ Termination(self.termination_a).model = "circuittermination"
       /\ Termination(self.termination_a).provider_network
    THEN Invalid("termination_a_id", MsgProviderNetwork)
    ELSE Passed(self.length_unit)

\* "A CircuitTermination attached to a Provider Network cannot have a Cable"
CheckProviderNetwork(self) ==
    LET a == Termination(self.termination_a)
        b == Termination(self.termination_b)
    IN IF a.model = "circuittermination" /\ a.provider_network
       THEN Invalid("termination_a_id", MsgProviderNetwork)
       ELSE IF b.model = "circuittermination" /\ b.provider_network
       THEN Invalid("termination_b_id", MsgProviderNetwork)
       ELSE Passed(self.length_unit)

\* The existing-cable check left out.
CheckExistingCable_Skipped(self, endRows) == Passed(self.length_unit)

\* The existing-cable check looking at termination A only.
CheckExistingCable_SideAOnly(self, endRows) ==
    IF CableOf(Termination(self.termination_a), endRows) \notin {NoCable, self.pk}
    THEN Invalid(NoKey, MsgHasCable)
    ELSE Passed(self.length_unit)

\* "Check for an existing Cable connected to either termination object"
CheckExistingCable(self, endRows) ==
    IF CableOf(Termination(self.termination_a), endRows) \notin {NoCable, self.pk}
    THEN Invalid(NoKey, MsgHasCable)
    ELSE IF CableOf(Termination(self.termination_b), endRows) \notin {NoCable, self.pk}
    THEN Invalid(NoKey, MsgHasCable)
    ELSE Passed(self.length_unit)

\* "Validate length and length_unit": a length needs a unit, and without a
\* length the unit is blanked.
CheckLength(self) ==
    IF self.length # NoLength /\ self.length_unit = ""
    THEN Invalid(NoKey, MsgUnit)
    ELSE IF self.length = NoLength THEN Passed("") ELSE Passed(self.length_unit)

\* Cable.clean(): the checks in the order of the code; the first that fails
\* raises.
clean(self, cableRows, endRows) ==
    LET r1 == CheckTerminationsExist(self)
        r2 == CheckTerminationsNotModified(self, cableRows)
        r3 == CheckInterfaceTypes(self)
        r4 == CheckCompatible(self)
        r5 == CheckPositions(self)
        r6 == CheckItself(self)
        r7 == CheckFrontRear(self)
        r8 == CheckProviderNetwork(self)
        r9 == CheckExistingCable(self, endRows)
    IN IF r1.err # Ok THEN r1
       ELSE IF r2.err # Ok THEN r2
       ELSE IF r3.err # Ok THEN r3
       ELSE IF r4.err # Ok THEN r4
       ELSE IF r5.err # Ok THEN r5
       ELSE IF r6.err # Ok THEN r6
       ELSE IF r7.err # Ok THEN r7
       ELSE IF r8.err # Ok THEN r8
       ELSE IF r9.err # Ok THEN r9
       ELSE CheckLength(self)

\* ------------------------------------------------------------- Cable.save
\* unique_together of Cable: no other cable has the same termination A, and
\* none has the same termination B.
CableUniqueViolation(self, cableRows) ==
    \E c \in cableRows :
        /\ c.pk # self.pk
        /\ \/ c.termination_a = self.termination_a
           \/ c.termination_b = self.termination_b

\* Cable.save() up to super().save(): the length in metres and the cached
\* devices of the two terminations.
CableRow(self) ==
    [pk |-> self.pk,
     termination_a |-> self.termination_a,
     termination_b |-> self.termination_b,
     length |-> self.length,
     length_unit |-> self.length_unit,
     _abs_length |-> IF self.length # NoLength /\ self.length # 0 /\ self.length_unit # ""
                     THEN to_meters(self.length, self.length_unit)
                     ELSE NoLength,
     _termination_a_device |-> Termination(self.termination_a).device,
     _termination_b_device |-> Termination(self.termination_b).device]

\* The CableEnd rows of a two-ended cable: one per side, at position 0.
CableEndsOf(self) ==
    {[cable |-> self.pk, cable_termination |-> self.termination_a.id,
      cable_side |-> "a", position |-> 0],
     [cable |-> self.pk, cable_termination |-> self.termination_b.id,
      cable_side |-> "b", position |-> 0]}

\* The CableEnd table without its constraint on cable_termination.
CableEndUniqueViolation_PerCable(written, endRows) ==
    \E e \in written, f \in endRows :
        e.cable = f.cable /\ e.position = f.position /\ e.cable_side = f.cable_side

\* unique_together of CableEnd: (cable, position, cable_side) and
\* (cable_termination,).
CableEndUniqueViolation(written, endRows) ==
    \/ Cardinality({e.cable_termination : e \in written}) < Cardinality(written)
    \/ \E e \in written, f \in endRows :
        \/ e.cable = f.cable /\ e.position = f.position /\ e.cable_side = f.cable_side
        \/ e.cable_termination = f.cable_termination

\* The outcome of the last cable call.
CableResult(op, err, key, msg) == [op |-> op, err |-> err, key |-> key, msg |-> msg]
NoCableOp == CableResult("none", Ok, NoKey, "")

\* ------------------------------------------------------------ migrations
\* The migrations of dcim and circuits that restructure cable terminations.
Migrations ==
    {"dcim.0082", "dcim.0083", "dcim.0084", "dcim.0085", "dcim.0086", "dcim.0088",
     "dcim.0089", "dcim.0090", "dcim.0091", "dcim.0092",
     "circuits.0023", "circuits.0024", "circuits.0025", "circuits.0026"}

\* Migration.dependencies of each of them, among these migrations.
Dependencies ==
    [m \in Migrations |->
        CASE m = "dcim.0082" -> {}
          [] m = "dcim.0083" -> {"dcim.0082"}
          [] m = "dcim.0084" -> {"dcim.0083"}
          [] m = "dcim.0085" -> {"dcim.0084"}
          [] m = "dcim.0086" -> {"dcim.0085"}
          [] m = "dcim.0088" -> {"dcim.0086"}
          [] m = "dcim.0089" -> {"dcim.0088"}
          [] m = "dcim.0090" -> {"dcim.0089"}
          [] m = "dcim.0091" -> {"circuits.0026", "dcim.0090"}
          [] m = "dcim.0092" -> {"dcim.0091"}
          [] m = "circuits.0023" -> {"dcim.0090"}
          [] m = "circuits.0024" -> {"circuits.0023", "dcim.0082"}
          [] m = "circuits.0025" -> {"circuits.0024"}
          [] m = "circuits.0026" -> {"circuits.0025"}]

\* A PowerFeed, the one kind of termination of the database that the cable
\* checks above do not meet.
PowerFeed ==
    [id |-> 9, model |-> "powerfeed", type |-> "primary", rear_port |-> NoRearPort,
     positions |-> 0, provider_network |-> FALSE, device |-> NoDevice]

\* The terminations in the database when the migrations run.
AllTerminations == Terminations \cup {PowerFeed}

\* child_models of populate_cabletermination_from_children (dcim 0083).
child_models ==
    {"consoleport", "consoleserverport", "powerport", "poweroutlet", "interface",
     "frontport", "rearport"}

\* unique_together of CableEnd as the model declares it.
CableEndMetaUniqueTogether == {<<"cable", "position", "cable_side">>, <<"cable_termination">>}

\* A CableEnd written beside the rows endRows breaks a unique_together of
\* the table.
UniqueTogetherViolation(written, endRows, unique_together) ==
    \E e \in written, f \in endRows, fields \in unique_together :
        \A i \in 1..Len(fields) : e[fields[i]] = f[fields[i]]

\* CableEnd.objects.create(cable=..., cable_termination=..., cable_side=...,
\* position=...) against the table endRows: the INSERT, refused when it
\* breaks a unique_together of the table.
CableEnd_create(cable, cable_termination, cable_side, position, endRows, unique_together) ==
    LET end == [cable |-> cable, cable_termination |-> cable_termination,
                cable_side |-> cable_side, position |-> position]
    IN IF UniqueTogetherViolation({end}, endRows, unique_together)
       THEN [err |-> IntegrityError, cable_ends |-> endRows]
       ELSE [err |-> Ok, cable_ends |-> endRows \cup {end}]

\* populate_cableend_from_cables (dcim 0089): for every cable a CableEnd at
\* position 0 on side a and one on side b, each skipped when the
\* CableTermination table has no row with the termination's id.
populate_cableend_from_cables(cableRows, terminationIds) ==
    UNION {{[cable |-> c.pk, cable_termination |-> c.termination_a.id,
             cable_side |-> "a", position |-> 0] : x \in {c.termination_a.id} \cap terminationIds}
           \cup
           {[cable |-> c.pk, cable_termination |-> c.termination_b.id,
             cable_side |-> "b", position |-> 0] : x \in {c.termination_b.id} \cap terminationIds}
           : c \in cableRows}

\* dcim 0088 (add_cableend_model): the CableEnd table, empty, with the
\* unique_together of the model.
AddCableEndModel == [cable_ends |-> {}, cableend_unique |-> CableEndMetaUniqueTogether]

\* The legacy fields of Cable that dcim 0092 removes.
RemovedCableFields ==
    {"termination_a", "termination_b", "_termination_a_device", "_termination_b_device"}

\* RemoveField on the rows of the Cable table.
RemoveFields(cableRows, removed) ==
    {[f \in (DOMAIN c) \ removed |-> c[f]] : c \in cableRows}

\* The database the models of dcim/models/cables.py work on: the Cable table
\* still has its termination fields (dcim 0092 not applied) and the CableEnd
\* table has the unique_together the model declares.
Migrated ==
    /\ applied = Migrations \ {"dcim.0092"}
    /\ cable_terminations = {t.id : t \in AllTerminations}
    /\ cableend_unique = CableEndMetaUniqueTogether
    /\ legacy_cables = {}

\* ------------------------------------------------------------- sessions
\* Two database sessions (requests) that may run Prefix.save() at the same
\* time.  A session holds the instance being saved and the statement of
\* save() it is about to run.
Sessions == {"s1", "s2"}

NoInstance ==
    [namespace |-> NoNamespace, ip_version |-> 0, network |-> 0, broadcast |-> 0,
     prefix_length |-> 0, type |-> TYPE_NETWORK, parent |-> None]

\* `attempts` counts the session's calls of super().save() / super().delete().
Idle == [pc |-> "idle", self |-> NoInstance, err |-> Ok, attempts |-> 0]

Init ==
    /\ prefixes = {}
    /\ ips = {}
    /\ last = NoOp
    /\ available = NotCalled
    /\ utilization = NoUtilization
    /\ reparsed = NotParsed
    /\ nat_result = NoNatCall
    /\ cables = {}
    /\ cable_ends = {}
    /\ cable_last = NoCableOp
    /\ sessions = [s \in Sessions |-> Idle]
    /\ Migrated

\* ------------------------------------------------------------ Prefix.save
\* Prefix(prefix=..., namespace=..., type=...).save() of a new instance.
CreatePrefix(ns, version, ip, prefixlen, type) ==
    UNCHANGED <<results, dcim, sessions>> /\ (
    LET self0 == NewPrefix(ns, version, ip, prefixlen, type)
        sup == supernets(self0, prefixes)
        self == IF sup # {}
                THEN [self0 EXCEPT !.parent = PrefixId(MaxByPrefixLength(sup))]
                ELSE self0
    IN IF PrefixUniqueViolation(self, prefixes)
       THEN \* super().save() fails on the unique constraint
            /\ last' = Result("create_prefix", IntegrityError, "none")
            /\ UNCHANGED <<prefixes, ips>>
       ELSE /\ prefixes' = reparent_subnets(self, prefixes \cup {self})
            /\ ips' = reparent_ips(self, ips)
            /\ last' = Result("create_prefix", Ok, "none"))

\* Prefix.save() of the new instance self0 against the table prefixRows: the
\* table after the parent was set, the row inserted and the subnets reparented.
save_new(self0, prefixRows) ==
    LET sup == supernets(self0, prefixRows)
        self == IF sup # {}
                THEN [self0 EXCEPT !.parent = PrefixId(MaxByPrefixLength(sup))]
                ELSE self0
    IN IF PrefixUniqueViolation(self, prefixRows)
       THEN prefixRows
       ELSE reparent_subnets(self, prefixRows \cup {self})

\* ------------------------------------------- Prefix.save, existing instance
\* The rows that reference the stored prefix P keep referencing it when its
\* fields change (the foreign key holds P's id, written here by P's fields).
Repoint(rows, P, self) ==
    {IF r.parent = PrefixId(P) THEN [r EXCEPT !.parent = PrefixId(self)] ELSE r : r \in rows}

\* P.prefix = <ip/prefixlen>; P.namespace = ns; P.save() of the stored prefix
\* P: the outcome, the instance as saved and the two tables.
save_existing(P, ns, ip, prefixlen, prefixRows, ipRows) ==
    LET others == {q \in prefixRows : PrefixId(q) # PrefixId(P)}
        \* the instance keeps the parent it was loaded with
        self0 == [NewPrefix(ns, P.ip_version, ip, prefixlen, P.type) EXCEPT !.parent = P.parent]
        sup == supernets(self0, others)
        self == IF sup # {}
                THEN [self0 EXCEPT !.parent = PrefixId(MaxByPrefixLength(sup))]
                ELSE self0
        stored == Repoint(others, P, self) \cup {self}
        addresses == Repoint(ipRows, P, self)
        moved == {a \in addresses : a.parent = self.parent}
    IN IF PrefixUniqueViolation(self, others)
       THEN [err |-> IntegrityError, self |-> P, prefixes |-> prefixRows, ips |-> ipRows]
       ELSE IF IPUniqueViolation(UpdateParent(moved, moved, PrefixId(self)), addresses \ moved)
       THEN \* reparent_ips() fails after the row and the subnets were written
            [err |-> IntegrityError, self |-> self,
             prefixes |-> reparent_subnets(self, stored), ips |-> addresses]
       ELSE [err |-> Ok, self |-> self,
             prefixes |-> reparent_subnets(self, stored),
             ips |-> reparent_ips(self, addresses)]

SavePrefix(P, ns, ip, prefixlen) ==
    /\ LET out == save_existing(P, ns, ip, prefixlen, prefixes, ips)
       IN /\ prefixes' = out.prefixes
          /\ ips' = out.ips
          /\ last' = Result("save_prefix", out.err, "none")
    /\ UNCHANGED <<results, dcim, sessions>>

\* ---------------------------------------------------------- Prefix.delete
\* self.delete() of a stored prefix D.  `model` is the model of the first of
\* err.protected_objects, a set: either kind of child that is present.
DeletePrefix(D, model) ==
    UNCHANGED <<results, dcim, sessions>> /\ (
    LET cp == ChildPrefixes(D, prefixes)
        ci == ChildIPs(D, ips)
        done(err) == Result("delete_prefix", err, model)
    IN IF cp = {} /\ ci = {}
       THEN \* the first super().delete() succeeds
            /\ model = "none"
            /\ prefixes' = prefixes \ {D}
            /\ UNCHANGED ips
            /\ last' = done(Ok)
       ELSE /\ \/ model = "Prefix" /\ cp # {}
               \/ model = "IPAddress" /\ ci # {}
            /\ IF model = "IPAddress" /\ D.parent = None
               THEN /\ last' = done(ProtectedErrorOrphan)
                    /\ UNCHANGED <<prefixes, ips>>
               ELSE IF model = "Prefix"
               THEN \* child prefixes move to D's parent, then the retry
                    LET moved == UpdateParent(prefixes, cp, D.parent)
                    IN IF ci = {}
                       THEN /\ prefixes' = moved \ {D}
                            /\ UNCHANGED ips
                            /\ last' = done(Ok)
                       ELSE /\ prefixes' = moved
                            /\ UNCHANGED ips
                            /\ last' = done(ProtectedError)
               ELSE \* child addresses move to D's parent, then the retry
                    LET moved == UpdateParent(ips, ci, D.parent)
                    IN IF IPUniqueViolation(UpdateParent(ci, ci, D.parent), ips \ ci)
                       THEN /\ last' = done(IntegrityError)
                            /\ UNCHANGED <<prefixes, ips>>
                       ELSE IF cp = {}
                       THEN /\ ips' = moved
                            /\ prefixes' = prefixes \ {D}
                            /\ last' = done(Ok)
                       ELSE /\ ips' = moved
                            /\ UNCHANGED prefixes
                            /\ last' = done(ProtectedError))

\* --------------------------------------------------------- IPAddress.save
\* IPAddress(address=..., namespace=nsArg, parent=parentArg).save(), new row.
CreateIP(version, host, nsArg, parentArg) ==
    UNCHANGED <<results, dcim, sessions>> /\ (
    LET namespace == InitNamespace(nsArg, parentArg)
        cand == ClosestParentCandidates(host, version, namespace, prefixes)
        done(err) == Result("create_ip", err, "none")
    IN IF namespace = NoNamespace
       THEN /\ last' = done(ValidationErrorParent)
            /\ UNCHANGED <<prefixes, ips>>
       ELSE IF cand = {}
       THEN /\ last' = done(DoesNotExist)
            /\ UNCHANGED <<prefixes, ips>>
       ELSE LET self == [host |-> host, ip_version |-> version,
                         parent |-> PrefixId(get_closest_parent(host, version, namespace, prefixes)),
                         namespace0 |-> namespace, nat_inside |-> NoIP]
            IN IF IPUniqueViolation({self}, ips)
               THEN /\ last' = done(IntegrityError)
                    /\ UNCHANGED <<prefixes, ips>>
               ELSE /\ ips' = ips \cup {self}
                    /\ UNCHANGED prefixes
                    /\ last' = done(Ok))

\* a.save() of a stored address a.
SaveIP(a) ==
    UNCHANGED <<results, dcim, sessions>> /\ (
    LET done(err) == Result("save_ip", err, "none")
    IN IF a.parent = None
       THEN \* self.parent.namespace of a null parent
            /\ last' = done(AttributeError)
            /\ UNCHANGED <<prefixes, ips>>
       ELSE LET namespace == a.parent.namespace
                cand == ClosestParentCandidates(a.host, a.ip_version, namespace, prefixes)
            IN IF cand = {}
               THEN /\ last' = done(DoesNotExist)
                    /\ UNCHANGED <<prefixes, ips>>
               ELSE LET self == [a EXCEPT !.parent =
                                    PrefixId(get_closest_parent(a.host, a.ip_version, namespace, prefixes))]
                    IN IF IPUniqueViolation({self}, ips \ {a})
                       THEN /\ last' = done(IntegrityError)
                            /\ UNCHANGED <<prefixes, ips>>
                       ELSE /\ ips' = (ips \ {a}) \cup {self}
                            /\ UNCHANGED prefixes
                            /\ last' = done(Ok))

\* ------------------------------------------------- get_available_ips()
\* p.get_available_ips() of a stored prefix p.
GetAvailableIPs(p) ==
    /\ available' = [called |-> TRUE, prefix |-> PrefixId(p),
                     ips |-> get_available_ips(p, ips)]
    /\ UNCHANGED <<ipam, utilization, reparsed, nat_result, dcim, sessions>>

\* ----------------------------------------------------- get_utilization()
\* p.get_utilization() of a stored prefix p.
GetUtilization(p) ==
    /\ utilization' = [called |-> TRUE, prefix |-> PrefixId(p),
                       data |-> get_utilization(p, prefixes, ips)]
    /\ UNCHANGED <<ipam, available, reparsed, nat_result, dcim, sessions>>

\* ------------------------------------------------- cidr_str / prefix
\* For a stored prefix p that Prefix(prefix=literal) builds from the literal
\* "ip/prefix_length" (ip may have host bits set): p.prefix = p.prefix, the
\* prefix property read (cidr_str, netaddr.IPNetwork) and set again
\* (_deconstruct_prefix).
ReparsePrefix(p, ip) ==
    /\ ParsePrefix(CidrLiteral(p.ip_version, ip, p.prefix_length)) =
            [network |-> p.network, broadcast |-> p.broadcast,
             prefix_length |-> p.prefix_length, ip_version |-> p.ip_version]
    /\ reparsed' = [called |-> TRUE, prefix |-> PrefixId(p), literal_ip |-> ip,
                    text |-> cidr_str(p), fields |-> ParsePrefix(cidr_str(p))]
    /\ UNCHANGED <<ipam, available, utilization, nat_result, dcim, sessions>>

\* ------------------------------------------------------------ nat_outside
\* a.nat_outside read on a stored address a.
GetNatOutside(a) ==
    /\ nat_result' = nat_outside(a, ips)
    /\ UNCHANGED <<ipam, available, utilization, reparsed, dcim, sessions>>

\* a.nat_outside = value on a stored address a; value is a stored address
\* or None.
SetNatOutside(a, value) ==
    LET out == nat_outside_setter(a, value, ips)
    IN /\ ips' = out.ips
       /\ nat_result' = out.call
       /\ UNCHANGED <<prefixes, last, available, utilization, reparsed, dcim, sessions>>

\* ---------------------------------------------------------------- cables
\* The primary key given to a new cable.
NewPk(cableRows) ==
    CHOOSE pk \in 1..(Cardinality(cableRows) + 1) : pk \notin {c.pk : c \in cableRows}

\* What validating and saving a new Cable(termination_a=a, termination_b=b,
\* length=..., length_unit=...) does to the tables cableRows and endRows:
\* clean(), then save(), then the CableEnd of each side ("CableEnd creation
\* is now handled directly in Cable.save()", dcim/signals.py), each write
\* committed on its own.
validated_save(a, b, length, length_unit, cableRows, endRows) ==
    LET self0 == [pk |-> NewPk(cableRows), termination_a |-> a, termination_b |-> b,
                  length |-> length, length_unit |-> length_unit]
        cleaned == clean(self0, cableRows, endRows)
        self == [self0 EXCEPT !.length_unit = cleaned.length_unit]
        end_a == {e \in CableEndsOf(self) : e.cable_side = "a"}
        end_b == {e \in CableEndsOf(self) : e.cable_side = "b"}
        done(err, cableRows1, endRows1) ==
            [cables |-> cableRows1, cable_ends |-> endRows1,
             last |-> CableResult("create_cable", err, NoKey, "")]
    IN IF cleaned.err # Ok
       THEN [cables |-> cableRows, cable_ends |-> endRows,
             last |-> CableResult("create_cable", cleaned.err, cleaned.key, cleaned.msg)]
       ELSE IF CableUniqueViolation(self, cableRows)
       THEN \* super().save() fails on unique_together
            done(IntegrityError, cableRows, endRows)
       ELSE IF CableEndUniqueViolation(end_a, endRows)
       THEN done(IntegrityError, cableRows \cup {CableRow(self)}, endRows)
       ELSE IF CableEndUniqueViolation(end_b, endRows \cup end_a)
       THEN done(IntegrityError, cableRows \cup {CableRow(self)}, endRows \cup end_a)
       ELSE done(Ok, cableRows \cup {CableRow(self)}, endRows \cup end_a \cup end_b)

\* What assigning termination_a, termination_b, length and length_unit to
\* the stored cable c and calling validated_save() does: clean(), then the
\* UPDATE of the row.  (The row's own unique_together values are unchanged
\* when clean() passed.)
validated_edit(c, a, b, length, length_unit, cableRows, endRows) ==
    LET self0 == [pk |-> c.pk, termination_a |-> a, termination_b |-> b,
                  length |-> length, length_unit |-> length_unit]
        cleaned == clean(self0, cableRows, endRows)
        self == [self0 EXCEPT !.length_unit = cleaned.length_unit]
    IN IF cleaned.err # Ok
       THEN [cables |-> cableRows, cable_ends |-> endRows,
             last |-> CableResult("update_cable", cleaned.err, cleaned.key, cleaned.msg)]
       ELSE [cables |-> (cableRows \ {c}) \cup {CableRow(self)}, cable_ends |-> endRows,
             last |-> CableResult("update_cable", Ok, NoKey, "")]

\* Editing the stored cable c and calling validated_save().
UpdateCable(c, a, b, length, length_unit) ==
    LET out == validated_edit(c, a, b, length, length_unit, cables, cable_ends)
    IN /\ cables' = out.cables
       /\ cable_ends' = out.cable_ends
       /\ cable_last' = out.last
       /\ UNCHANGED <<ipam, results, sessions, migration>>

\* Cable(...).validated_save() of a new cable.
CreateCable(a, b, length, length_unit) ==
    LET out == validated_save(a, b, length, length_unit, cables, cable_ends)
    IN /\ cables' = out.cables
       /\ cable_ends' = out.cable_ends
       /\ cable_last' = out.last
       /\ UNCHANGED <<ipam, results, sessions, migration>>

\* c.delete() of a stored cable: its CableEnds go with it (on_delete=CASCADE).
DeleteCable(c) ==
    /\ cables' = cables \ {c}
    /\ cable_ends' = {e \in cable_ends : e.cable # c.pk}
    /\ cable_last' = CableResult("delete_cable", Ok, NoKey, "")
    /\ UNCHANGED <<ipam, results, sessions, migration>>

\* detach looking its CableEnd up with get().
detach_Get(t, endRows) ==
    IF \E e \in endRows : e.cable_termination = t.id
    THEN [cable_ends |-> {e \in endRows : e.cable_termination # t.id},
          last |-> CableResult("detach", Ok, NoKey, "")]
    ELSE [cable_ends |-> endRows,
          last |-> CableResult("detach", DoesNotExist, NoKey, "")]

\* detach of the cable engine: the CableEnd of termination t, if there is
\* one, is deleted (t.cable_ends.all().delete()).
detach(t, endRows) ==
    [cable_ends |-> {e \in endRows : e.cable_termination # t.id},
     last |-> CableResult("detach", Ok, NoKey, "")]

Detach(t) ==
    LET out == detach(t, cable_ends)
    IN /\ cable_ends' = out.cable_ends
       /\ cable_last' = out.last
       /\ UNCHANGED <<cables, ipam, results, sessions, migration>>

\* --------------------------------------- Prefix.save(), statement by statement
\* Prefix.save() has no transaction and takes no lock: supernets() is called
\* with for_update=False, and the select_for_update() of reparent_subnets()
\* and reparent_ips() has no effect on their UPDATE.  Each query of save()
\* is therefore a step of its own, and the steps of two sessions interleave.

\* Session s builds Prefix(prefix=..., namespace=ns) and calls save().
BeginSave(s, ns, version, ip, prefixlen) ==
    /\ sessions[s].pc = "idle"
    /\ sessions' = [sessions EXCEPT ![s] =
            [pc |-> "supernets", self |-> NewPrefix(ns, version, ip, prefixlen, TYPE_NETWORK),
             err |-> Ok, attempts |-> 0]]
    /\ UNCHANGED <<ipam, results, dcim>>

\* supernets = self.supernets(); self.parent = max(supernets, ...)
ReadSupernets(s) ==
    /\ sessions[s].pc = "supernets"
    /\ LET self0 == sessions[s].self
           sup == supernets(self0, prefixes)
           self == IF sup # {}
                   THEN [self0 EXCEPT !.parent = PrefixId(MaxByPrefixLength(sup))]
                   ELSE self0
       IN sessions' = [sessions EXCEPT ![s] =
            [pc |-> "insert", self |-> self, err |-> Ok, attempts |-> 0]]
    /\ UNCHANGED <<ipam, results, dcim>>

\* super().save(): the INSERT, refused by the unique constraint.
InsertPrefix(s) ==
    /\ sessions[s].pc = "insert"
    /\ LET self == sessions[s].self
       IN IF PrefixUniqueViolation(self, prefixes)
          THEN /\ sessions' = [sessions EXCEPT ![s] =
                    [@ EXCEPT !.pc = "done", !.err = IntegrityError, !.attempts = @ + 1]]
               /\ UNCHANGED prefixes
          ELSE /\ prefixes' = prefixes \cup {self}
               /\ sessions' = [sessions EXCEPT ![s] =
                    [@ EXCEPT !.pc = "reparent_subnets", !.attempts = @ + 1]]
    /\ UNCHANGED <<ips, last, results, dcim>>

\* self.reparent_subnets(): the UPDATE of the Prefix table.
ReparentSubnets(s) ==
    /\ sessions[s].pc = "reparent_subnets"
    /\ prefixes' = reparent_subnets(sessions[s].self, prefixes)
    /\ sessions' = [sessions EXCEPT ![s] = [@ EXCEPT !.pc = "reparent_ips"]]
    /\ UNCHANGED <<ips, last, results, dcim>>

\* self.reparent_ips(): the UPDATE of the IPAddress table; save() returns.
ReparentIPs(s) ==
    /\ sessions[s].pc = "reparent_ips"
    /\ ips' = reparent_ips(sessions[s].self, ips)
    /\ sessions' = [sessions EXCEPT ![s] = [@ EXCEPT !.pc = "done"]]
    /\ UNCHANGED <<prefixes, last, results, dcim>>

\* ------------------------------------ Prefix.delete(), statement by statement
\* Session s loads the stored prefix D and calls D.delete().
BeginDelete(s, D) ==
    /\ sessions[s].pc = "idle"
    /\ sessions' = [sessions EXCEPT ![s] =
            [pc |-> "delete", self |-> D, err |-> Ok, attempts |-> 0,
             protected_model |-> "none", protected_prefixes |-> {}, protected_ips |-> {}]]
    /\ UNCHANGED <<ipam, results, dcim>>

\* super().delete() against the tables: ProtectedError while a prefix or an
\* address has self as its parent (on_delete=PROTECT), else the row goes.
super_delete(self, prefixRows, ipRows) ==
    IF ChildPrefixes(self, prefixRows) # {} \/ ChildIPs(self, ipRows) # {}
    THEN [err |-> ProtectedError, prefixes |-> prefixRows]
    ELSE [err |-> Ok, prefixes |-> {q \in prefixRows : PrefixId(q) # PrefixId(self)}]

\* The first super().delete() of Prefix.delete(); on ProtectedError the
\* handler takes the model of the first of err.protected_objects (either
\* kind of child that is present).
TryDelete(s, model) ==
    /\ sessions[s].pc = "delete"
    /\ sessions[s].attempts < MaxAttempts
    /\ LET self == sessions[s].self
           out == super_delete(self, prefixes, ips)
       IN /\ prefixes' = out.prefixes
          /\ IF out.err = Ok
             THEN /\ model = "none"
                  /\ sessions' = [sessions EXCEPT ![s] =
                        [@ EXCEPT !.pc = "done", !.attempts = @ + 1]]
             ELSE /\ \/ model = "Prefix" /\ ChildPrefixes(self, prefixes) # {}
                     \/ model = "IPAddress" /\ ChildIPs(self, ips) # {}
                  /\ sessions' = [sessions EXCEPT ![s] =
                        [@ EXCEPT !.pc = "handle", !.attempts = @ + 1,
                                  !.protected_model = model,
                                  !.protected_prefixes = {PrefixId(q) : q \in ChildPrefixes(self, prefixes)},
                                  !.protected_ips = ChildIPs(self, ips)]]
    /\ UNCHANGED <<ips, last, results, dcim>>

\* The except branch: the explicit error when a child IPAddress would lose
\* its parent, else protected_objects.update(parent=self.parent).
HandleProtected(s) ==
    /\ sessions[s].pc = "handle"
    /\ LET self == sessions[s].self
           model == sessions[s].protected_model
       IN IF model = "IPAddress" /\ self.parent = None
          THEN /\ sessions' = [sessions EXCEPT ![s] =
                    [@ EXCEPT !.pc = "done", !.err = ProtectedErrorOrphan]]
               /\ UNCHANGED <<prefixes, ips>>
          ELSE IF model = "Prefix"
          THEN /\ prefixes' = UpdateParent(prefixes,
                                {q \in prefixes : PrefixId(q) \in sessions[s].protected_prefixes},
                                self.parent)
               /\ UNCHANGED ips
               /\ sessions' = [sessions EXCEPT ![s] = [@ EXCEPT !.pc = "retry"]]
          ELSE LET ci == sessions[s].protected_ips \cap ips
               IN IF IPUniqueViolation(UpdateParent(ci, ci, self.parent), ips \ ci)
                  THEN /\ sessions' = [sessions EXCEPT ![s] =
                            [@ EXCEPT !.pc = "done", !.err = IntegrityError]]
                       /\ UNCHANGED <<prefixes, ips>>
                  ELSE /\ ips' = UpdateParent(ips, ci, self.parent)
                       /\ UNCHANGED prefixes
                       /\ sessions' = [sessions EXCEPT ![s] = [@ EXCEPT !.pc = "retry"]]
    /\ UNCHANGED <<last, results, dcim>>

\* A handler that goes back to its except branch when the retry fails.
after_retry_Again(err) == IF err = Ok THEN "done" ELSE "delete"

\* `return super().delete(*args, **kwargs)` in the except branch: whatever
\* it raises reaches the caller.
after_retry(err) == "done"

\* The second super().delete() of Prefix.delete().
RetryDelete(s) ==
    /\ sessions[s].pc = "retry"
    /\ LET out == super_delete(sessions[s].self, prefixes, ips)
       IN /\ prefixes' = out.prefixes
          /\ sessions' = [sessions EXCEPT ![s] =
                [@ EXCEPT !.pc = after_retry(out.err), !.err = out.err, !.attempts = @ + 1]]
    /\ UNCHANGED <<ips, last, results, dcim>>

\* The session's request is over; it can serve another.
EndSave(s) ==
    /\ sessions[s].pc = "done"
    /\ sessions' = [sessions EXCEPT ![s] = Idle]
    /\ UNCHANGED <<ipam, results, dcim>>

\* ------------------------------------------------------------- migrate
\* `manage.py migrate` applies one migration whose dependencies are applied.
Migrate(m) ==
    /\ m \notin applied
    /\ Dependencies[m] \subseteq applied
    /\ applied' = applied \cup {m}
    /\ cable_terminations' =
            CASE m = "dcim.0083" ->
                    cable_terminations \cup {t.id : t \in {u \in AllTerminations : u.model \in child_models}}
              [] m = "dcim.0084" ->
                    cable_terminations \cup {t.id : t \in {u \in AllTerminations : u.model = "powerfeed"}}
              [] m = "circuits.0023" ->
                    cable_terminations \cup {t.id : t \in {u \in AllTerminations : u.model = "circuittermination"}}
              [] OTHER -> cable_terminations
    /\ cable_ends' =
            CASE m = "dcim.0088" -> AddCableEndModel.cable_ends
              [] m = "dcim.0089" -> populate_cableend_from_cables(cables, cable_terminations)
              [] OTHER -> cable_ends
    /\ cableend_unique' =
            CASE m = "dcim.0088" -> AddCableEndModel.cableend_unique
              [] m = "dcim.0092" -> {<<"cable_termination">>}
              [] OTHER -> cableend_unique
    /\ cables' = IF m = "dcim.0092" THEN RemoveFields(cables, RemovedCableFields) ELSE cables
    /\ cable_last' = CableResult("migrate", Ok, NoKey, "")
    /\ UNCHANGED <<legacy_cables, ipam, results, sessions>>

\* CableEnd.objects.create(cable=c, cable_termination=t, cable_side=side,
\* position=position) on the migrated database, for a stored cable and a
\* row of the CableTermination table.
CreateCableEnd(c, t, side, position) ==
    /\ applied = Migrations
    /\ LET out == CableEnd_create(c.pk, t, side, position, cable_ends, cableend_unique)
       IN /\ cable_ends' = out.cable_ends
          /\ cable_last' = CableResult("create_cable_end", out.err, NoKey, "")
    /\ UNCHANGED <<cables, migration, ipam, results, sessions>>

\* ----------------------------- Cable.validated_save(), statement by statement
\* Neither Cable.clean() nor Cable.save() takes a lock or opens a
\* transaction, so the reads of clean(), the INSERT of the Cable row and the
\* INSERT of each CableEnd are steps of their own, and the steps of two
\* sessions interleave.

\* Session s builds Cable(termination_a=a, termination_b=b); the primary key
\* is drawn at construction and differs from every other cable's.
BeginAttach(s, a, b) ==
    /\ sessions[s].pc = "idle"
    /\ LET taken == {c.pk : c \in cables}
                        \cup {sessions[t].self.pk : t \in {u \in Sessions : sessions[u].pc # "idle"}}
           pk == CHOOSE k \in 1..(Cardinality(taken) + 1) : k \notin taken
       IN sessions' = [sessions EXCEPT ![s] =
            [pc |-> "clean",
             self |-> [pk |-> pk, termination_a |-> a, termination_b |-> b,
                       length |-> NoLength, length_unit |-> ""],
             err |-> Ok, attempts |-> 0]]
    /\ UNCHANGED <<ipam, results, dcim>>

\* full_clean(): Cable.clean() against the tables as they are now.
CleanCable(s) ==
    /\ sessions[s].pc = "clean"
    /\ LET cleaned == clean(sessions[s].self, cables, cable_ends)
       IN sessions' = [sessions EXCEPT ![s] =
            IF cleaned.err # Ok
            THEN [@ EXCEPT !.pc = "done", !.err = cleaned.err]
            ELSE [@ EXCEPT !.pc = "save", !.self.length_unit = cleaned.length_unit]]
    /\ UNCHANGED <<ipam, results, dcim>>

\* Cable.save(): super().save(), the INSERT of the Cable row, refused by
\* unique_together.
InsertCable(s) ==
    /\ sessions[s].pc = "save"
    /\ LET self == sessions[s].self
       IN IF CableUniqueViolation(self, cables)
          THEN /\ sessions' = [sessions EXCEPT ![s] = [@ EXCEPT !.pc = "done", !.err = IntegrityError]]
               /\ UNCHANGED cables
          ELSE /\ cables' = cables \cup {CableRow(self)}
               /\ sessions' = [sessions EXCEPT ![s] = [@ EXCEPT !.pc = "end_a"]]
    /\ UNCHANGED <<cable_ends, cable_last, ipam, results, migration>>

\* The INSERT of the CableEnd of one side, refused by unique_together.
InsertCableEnd(s, side) ==
    /\ sessions[s].pc = "end_" \o side
    /\ LET end == {e \in CableEndsOf(sessions[s].self) : e.cable_side = side}
       IN IF CableEndUniqueViolation(end, cable_ends)
          THEN /\ sessions' = [sessions EXCEPT ![s] = [@ EXCEPT !.pc = "done", !.err = IntegrityError]]
               /\ UNCHANGED cable_ends
          ELSE /\ cable_ends' = cable_ends \cup end
               /\ sessions' = [sessions EXCEPT ![s] =
                    [@ EXCEPT !.pc = IF side = "a" THEN "end_b" ELSE "done"]]
    /\ UNCHANGED <<cables, cable_last, ipam, results, migration>>

\* ------------------------------------------------------------ transitions
\* The Prefix operations, on prefixes of the given namespaces and IP versions.
PrefixOps(namespaces, versions) ==
    \/ /\ Cardinality(prefixes) < MaxPrefixes
       /\ \E ns \in namespaces, version \in versions, ip \in Addrs :
            \E prefixlen \in Lengths(version) :
                CreatePrefix(ns, version, ip, prefixlen, TYPE_NETWORK)
    \/ \E D \in prefixes, model \in {"none", "Prefix", "IPAddress"} : DeletePrefix(D, model)

\* The IPAddress operations, on addresses of the given IP versions.
IPOps(versions) ==
    \/ /\ Cardinality(ips) < MaxIPs
       /\ \E version \in versions, host \in Addrs,
             nsArg \in Namespaces \cup {NoNamespace},
             parentArg \in {PrefixId(q) : q \in prefixes} \cup {None} :
            CreateIP(version, host, nsArg, parentArg)
    \/ \E a \in ips : SaveIP(a)

\* The inputs of get_available_ips(): one prefix of any version, length and
\* type, with any set of child addresses.  (A child's host need not lie in
\* the prefix's range: reparent_ips() moves addresses by parent alone.)
InitAvail ==
    /\ \E version \in IPAddressVersionChoices, ip \in Addrs, type \in PrefixTypeChoices :
         \E prefixlen \in Lengths(version), hosts \in SUBSET Addrs :
            LET p == NewPrefix("Global", version, ip, prefixlen, type)
            IN /\ prefixes = {p}
               /\ ips = {[host |-> h, ip_version |-> version, parent |-> PrefixId(p),
                          namespace0 |-> "Global", nat_inside |-> NoIP] : h \in hosts}
    /\ last = NoOp
    /\ available = NotCalled
    /\ utilization = NoUtilization
    /\ reparsed = NotParsed
    /\ nat_result = NoNatCall
    /\ cables = {}
    /\ cable_ends = {}
    /\ cable_last = NoCableOp
    /\ sessions = [s \in Sessions |-> Idle]
    /\ Migrated

\* The inputs of nat_outside: the addresses of one prefix, each with a null
\* nat_inside or with nat_inside set to any address of the table (itself
\* included).
InitNat ==
    /\ \E hosts \in {H \in SUBSET Addrs : H # {} /\ Cardinality(H) <= MaxIPs + 1} :
         LET p == NewPrefix("Global", 4, 0, 32 - HostBits, TYPE_POOL)
             row(h, inside) == [host |-> h, ip_version |-> 4, parent |-> PrefixId(p),
                                namespace0 |-> "Global", nat_inside |-> inside]
             refs == {IPRef(row(h, NoIP)) : h \in hosts}
         IN \E inside \in [hosts -> refs \cup {NoIP}] :
                /\ prefixes = {p}
                /\ ips = {row(h, inside[h]) : h \in hosts}
    /\ last = NoOp
    /\ available = NotCalled
    /\ utilization = NoUtilization
    /\ reparsed = NotParsed
    /\ nat_result = NoNatCall
    /\ cables = {}
    /\ cable_ends = {}
    /\ cable_last = NoCableOp
    /\ sessions = [s \in Sessions |-> Idle]
    /\ Migrated

NextNat ==
    \/ \E a \in ips : GetNatOutside(a)
    \/ \E a \in ips, value \in {IPRef(b) : b \in ips} \cup {NoIP} : SetNatOutside(a, value)

SpecNat == InitNat /\ [][NextNat]_vars

\* The cables a database can hold before the migrations: between two
\* distinct terminations of compatible kinds, neither a non-connectable
\* interface nor a circuit termination of a provider network.
LegacyPairs ==
    {pair \in AllTerminations \X AllTerminations :
        /\ pair[1] # pair[2]
        /\ pair[2].model \in COMPATIBLE_TERMINATION_TYPES[pair[1].model]
        /\ \A i \in 1..2 :
            /\ ~(pair[i].model = "interface" /\ pair[i].type \in NONCONNECTABLE_IFACE_TYPES)
            /\ ~pair[i].provider_network}

LegacyCable(pk, pair) ==
    [pk |-> pk, termination_a |-> Ref(pair[1]), termination_b |-> Ref(pair[2]),
     length |-> NoLength, length_unit |-> "", _abs_length |-> NoLength,
     _termination_a_device |-> pair[1].device, _termination_b_device |-> pair[2].device]

\* The database before dcim 0082: up to MaxCables cables, no termination on
\* two of them, and neither a CableTermination nor a CableEnd table.
InitMigrate ==
    /\ \E n \in 0..MaxCables :
        \E pairs \in [1..n -> LegacyPairs] :
            /\ \A i, j \in 1..n :
                i < j => /\ pairs[i][1].id < pairs[j][1].id
                         /\ {pairs[i][1], pairs[i][2]} \cap {pairs[j][1], pairs[j][2]} = {}
            /\ cables = {LegacyCable(i, pairs[i]) : i \in 1..n}
    /\ legacy_cables = cables
    /\ applied = {}
    /\ cable_terminations = {}
    /\ cableend_unique = {}
    /\ cable_ends = {}
    /\ cable_last = NoCableOp
    /\ prefixes = {}
    /\ ips = {}
    /\ last = NoOp
    /\ available = NotCalled
    /\ utilization = NoUtilization
    /\ reparsed = NotParsed
    /\ nat_result = NoNatCall
    /\ sessions = [s \in Sessions |-> Idle]

\* The migrations in any order their dependencies allow, then CableEnd
\* creations on the migrated database.
NextMigrate ==
    \/ \E m \in Migrations : Migrate(m)
    \/ /\ Cardinality(cable_ends) < 2 * MaxCables
       /\ \E c \in cables, t \in cable_terminations, side \in {"a", "b"}, position \in {0, 1} :
            CreateCableEnd(c, t, side, position)

SpecMigrate == InitMigrate /\ [][NextMigrate]_vars

NextAvail ==
    \/ \E p \in prefixes : GetAvailableIPs(p)
    \/ \E p \in prefixes : GetUtilization(p)
    \/ \E p \in prefixes, ip \in Addrs : ReparsePrefix(p, ip)

\* Prefix operations alone, within one namespace, both IP versions.
NextPrefix == PrefixOps({"Global"}, IPAddressVersionChoices)

\* Prefix operations alone, in two namespaces and both IP versions.
NextForest == PrefixOps(Namespaces, IPAddressVersionChoices)

\* Prefix and IPAddress operations on IPv4, two namespaces.
Next == PrefixOps(Namespaces, {4}) \/ IPOps({4})

\* The Cable operations.
CableOps ==
    \/ /\ Cardinality(cables) < MaxCables
       /\ \E a \in Refs, b \in Refs, length \in CableLengths, length_unit \in LengthUnits :
            CreateCable(a, b, length, length_unit)
    \/ \E c \in cables : DeleteCable(c)

\* Cable creations and deletions.
NextCable == CableOps

\* Cable creations and deletions, and detaching single terminations.
NextDetach == CableOps \/ \E t \in Terminations : Detach(t)

\* Prefix creations of the two sessions, interleaved statement by statement,
\* in one namespace and IP version.
NextConcurrent ==
    \E s \in Sessions :
        \/ /\ Cardinality(prefixes)
                + Cardinality({t \in Sessions : sessions[t].pc \in {"supernets", "insert"}})
                    < MaxPrefixes
           /\ \E ip \in Addrs, prefixlen \in Lengths(4) : BeginSave(s, "Global", 4, ip, prefixlen)
        \/ ReadSupernets(s)
        \/ InsertPrefix(s)
        \/ ReparentSubnets(s)
        \/ ReparentIPs(s)
        \/ EndSave(s)

\* Cable attachments of the two sessions, interleaved statement by statement.
NextAttach ==
    \E s \in Sessions :
        \/ /\ Cardinality(cables)
                + Cardinality({t \in Sessions : sessions[t].pc \in {"clean", "save"}})
                    < MaxCables
           /\ \E a \in Refs, b \in Refs : BeginAttach(s, a, b)
        \/ CleanCable(s)
        \/ InsertCable(s)
        \/ InsertCableEnd(s, "a")
        \/ InsertCableEnd(s, "b")
        \/ EndSave(s)

\* The statements of one session's Prefix.save() and Prefix.delete().
PrefixSteps(s) ==
    \/ ReadSupernets(s)
    \/ InsertPrefix(s)
    \/ ReparentSubnets(s)
    \/ ReparentIPs(s)
    \/ \E model \in {"none", "Prefix", "IPAddress"} : TryDelete(s, model)
    \/ HandleProtected(s)
    \/ RetryDelete(s)

\* One session creating and deleting prefixes statement by statement, and
\* address creations between its statements.
NextDelete ==
    \/ /\ Cardinality(prefixes) < MaxPrefixes
       /\ \E ip \in Addrs, prefixlen \in Lengths(4) : BeginSave("s1", "Global", 4, ip, prefixlen)
    \/ \E D \in prefixes : BeginDelete("s1", D)
    \/ PrefixSteps("s1")
    \/ EndSave("s1")
    \/ /\ Cardinality(ips) < MaxIPs
       /\ \E host \in Addrs : CreateIP(4, host, "Global", None)

\* A started request runs on: every statement of the handler is executed.
SpecDelete == Init /\ [][NextDelete]_vars /\ WF_vars(PrefixSteps("s1"))

\* Prefix creations, deletions and edits of stored prefixes, in one
\* namespace and IP version.
NextSave ==
    \/ PrefixOps({"Global"}, {4})
    \/ \E P \in prefixes, ip \in Addrs, prefixlen \in Lengths(4) :
            SavePrefix(P, "Global", ip, prefixlen)

SpecSave == Init /\ [][NextSave]_vars

SpecAttach == Init /\ [][NextAttach]_vars

SpecConcurrent == Init /\ [][NextConcurrent]_vars

SpecCable == Init /\ [][NextCable]_vars

\* Cable creations, deletions and validated edits of stored cables: an
\* edit assigns a length, a unit and at most one other termination.
NextEdit ==
    \/ CableOps
    \/ \E c \in cables, length \in CableLengths, length_unit \in LengthUnits :
        \/ \E a \in EditRefs : UpdateCable(c, a, c.termination_b, length, length_unit)
        \/ \E b \in EditRefs : UpdateCable(c, c.termination_a, b, length, length_unit)

SpecEdit == Init /\ [][NextEdit]_vars

SpecDetach == Init /\ [][NextDetach]_vars

SpecPrefix == Init /\ [][NextPrefix]_vars

SpecForest == Init /\ [][NextForest]_vars

\* One session creating prefixes in one namespace, in any order.
NextCreate ==
    \/ /\ Cardinality(prefixes) < MaxPrefixes
       /\ \E version \in IPAddressVersionChoices, ip \in Addrs :
            \E prefixlen \in Lengths(version) : BeginSave("s1", "Global", version, ip, prefixlen)
    \/ ReadSupernets("s1")
    \/ InsertPrefix("s1")
    \/ ReparentSubnets("s1")
    \/ ReparentIPs("s1")
    \/ EndSave("s1")

SpecCreate == Init /\ [][NextCreate]_vars

Spec == Init /\ [][Next]_vars

SpecAvail == InitAvail /\ [][NextAvail]_vars

\* ================================================================ claims
\* q encloses p: another prefix of the same namespace and IP version whose
\* [network, broadcast] range contains p's.
Encloses(q, p) ==
    /\ PrefixId(q) # PrefixId(p)
    /\ q.namespace = p.namespace
    /\ q.ip_version = p.ip_version
    /\ q.network <= p.network
    /\ q.broadcast >= p.broadcast

Enclosers(p, rows) == {q \in rows : Encloses(q, p)}

RowOf(id, rows) == CHOOSE r \in rows : PrefixId(r) = id

\* C1: after any sequence of Prefix creations and deletions, the parent of
\* every prefix is the enclosing prefix of the same namespace and IP version
\* with the largest prefix_length (which is unique), and null when no prefix
\* encloses it.
C1_ParentIsMostSpecificEncloser ==
    \A p \in prefixes :
        LET enc == Enclosers(p, prefixes)
        IN IF enc = {}
           THEN p.parent = None
           ELSE \E q \in enc :
                    /\ p.parent = PrefixId(q)
                    /\ \A r \in enc \ {q} : r.prefix_length < q.prefix_length

\* A deletion has just moved a child prefix to the deleted prefix's parent:
\* a prefix that had two enclosing prefixes is now the child of the outer one.
C1_Witness ==
    /\ last = Result("delete_prefix", Ok, "Prefix")
    /\ \E p \in prefixes : Cardinality(Enclosers(p, prefixes)) = 1

\* The window's image of 10.0.0.0/8, 10.0.0.0/16 and 10.0.1.0/24 in the
\* Global namespace: a network, its first half, and a host network at
\* another address of that half.
Ex8 == PrefixId(NewPrefix("Global", 4, 0, 30, TYPE_NETWORK))
Ex16 == PrefixId(NewPrefix("Global", 4, 0, 31, TYPE_NETWORK))
Ex24 == PrefixId(NewPrefix("Global", 4, 1, 32, TYPE_NETWORK))

Ids(rows) == {PrefixId(q) : q \in rows}

\* x lies within p's range and is more specific than p.
StrictlyEnclosedBy(x, p) ==
    /\ x.network >= p.network
    /\ x.broadcast <= p.broadcast
    /\ x.prefix_length > p.prefix_length

\* The step created one prefix.
CreatedPrefix ==
    /\ last'.op = "create_prefix"
    /\ last'.err = Ok
    /\ Cardinality(prefixes') = Cardinality(prefixes) + 1

\* C3 (frame): a successful creation of P changes the parent of exactly the
\* existing prefixes that were children of P's parent, have P's namespace and
\* IP version and are strictly enclosed by P, and makes P their parent; all
\* other prefixes keep their parent.
C3_Frame ==
    CreatedPrefix =>
        LET P == CHOOSE r \in prefixes' : PrefixId(r) \notin Ids(prefixes)
        IN /\ Ids(prefixes') = Ids(prefixes) \cup {PrefixId(P)}
           /\ \A x \in prefixes :
                LET y == RowOf(PrefixId(x), prefixes')
                IN IF /\ x.parent = P.parent
                      /\ x.namespace = P.namespace
                      /\ x.ip_version = P.ip_version
                      /\ StrictlyEnclosedBy(x, P)
                   THEN y.parent = PrefixId(P)
                   ELSE y.parent = x.parent

\* C3 (example): once /8, /16 and /24 are all stored, /16.parent is /8 and
\* /24.parent is /16.
C3_Example ==
    {Ex8, Ex16, Ex24} \subseteq Ids(prefixes) =>
        /\ RowOf(Ex16, prefixes).parent = Ex8
        /\ RowOf(Ex24, prefixes).parent = Ex16

\* C3: the frame of Prefix creation, and the /8, /16, /24 example.
C3_CreateReparentsExactlyTheEnclosedChildren ==
    [][C3_Frame /\ (CreatedPrefix => C3_Example')]_vars

\* /8, /16 and /24 are stored and the last call created one prefix.
C3_Witness ==
    /\ last.op = "create_prefix"
    /\ last.err = Ok
    /\ {Ex8, Ex16, Ex24} = Ids(prefixes)

\* The prefixes of a namespace and IP version whose range contains a host.
Containing(host, version, namespace, rows) ==
    {q \in rows :
        /\ q.namespace = namespace
        /\ q.ip_version = version
        /\ q.network <= host
        /\ host <= q.broadcast}

\* C2: the parent of every IPAddress is the most specific prefix of its
\* namespace whose [network, broadcast] range contains its host.
C2_IPParentIsMostSpecificContainingPrefix ==
    \A a \in ips :
        \E q \in Containing(a.host, a.ip_version, a.namespace0, prefixes) :
            /\ a.parent = PrefixId(q)
            /\ \A r \in Containing(a.host, a.ip_version, a.namespace0, prefixes) :
                    r.prefix_length <= q.prefix_length

PrefixModels == {"none", "Prefix", "IPAddress"}

\* The step is a call of D.delete().
IsDeleteOf(D) ==
    /\ last'.op = "delete_prefix"
    /\ \E model \in PrefixModels : DeletePrefix(D, model)

\* C4: deleting a prefix D that has child prefixes and no child IPAddresses
\* succeeds: D is removed, nothing else is, and every former child prefix of
\* D has D's former parent (null if D was a root) as its parent.
C4_DeleteReparentsChildPrefixes ==
    [][\A D \in prefixes :
        (/\ ChildPrefixes(D, prefixes) # {}
         /\ ChildIPs(D, ips) = {}
         /\ IsDeleteOf(D))
        => /\ last'.err = Ok
           /\ Ids(prefixes') = Ids(prefixes) \ {PrefixId(D)}
           /\ \A c \in ChildPrefixes(D, prefixes) :
                RowOf(PrefixId(c), prefixes').parent = D.parent
           /\ ips' = ips]_vars

\* The example: /16 was deleted with its /24 child under /8, and /24.parent
\* is now /8.
C4_Witness ==
    /\ last = Result("delete_prefix", Ok, "Prefix")
    /\ Ids(prefixes) = {Ex8, Ex24}
    /\ RowOf(Ex24, prefixes).parent = Ex8

\* C5: deleting a prefix that has no parent and at least one child
\* IPAddress fails with the explicit error and leaves the tables unchanged.
C5_RootWithChildIPsCannotBeDeleted ==
    [][\A D \in prefixes :
        (/\ D.parent = None
         /\ ChildIPs(D, ips) # {}
         /\ IsDeleteOf(D))
        => /\ last'.err = ProtectedErrorOrphan
           /\ UNCHANGED <<prefixes, ips>>]_vars

\* C6: deleting a prefix D that has a parent always succeeds: D is removed
\* and all its child prefixes and child IPAddresses have D's parent.
C6_DeleteWithParentAlwaysSucceeds ==
    [][\A D \in prefixes :
        (/\ D.parent # None
         /\ IsDeleteOf(D))
        => /\ last'.err = Ok
           /\ Ids(prefixes') = Ids(prefixes) \ {PrefixId(D)}
           /\ \A c \in ChildPrefixes(D, prefixes) :
                RowOf(PrefixId(c), prefixes').parent = D.parent
           /\ ips' = UpdateParent(ips, ChildIPs(D, ips), D.parent)]_vars

\* No two prefixes of a namespace have the same (network, prefix_length).
C7_Unique ==
    \A p, q \in prefixes :
        (/\ p.namespace = q.namespace
         /\ p.network = q.network
         /\ p.prefix_length = q.prefix_length) => p = q

\* The step is a creation that duplicates a stored (namespace, network,
\* prefix_length), possibly from a literal with host bits set.
IsDuplicateCreate ==
    \E ns \in Namespaces, version \in IPAddressVersionChoices, ip \in Addrs :
        \E prefixlen \in Lengths(version) :
            LET new == NewPrefix(ns, version, ip, prefixlen, TYPE_NETWORK)
            IN /\ \E q \in prefixes :
                    /\ q.namespace = new.namespace
                    /\ q.network = new.network
                    /\ q.prefix_length = new.prefix_length
               /\ CreatePrefix(ns, version, ip, prefixlen, TYPE_NETWORK)

\* A creation that duplicates a stored (namespace, network, prefix_length)
\* is rejected and leaves both tables as they were.
C7_DuplicateRejected ==
    last'.op = "create_prefix" =>
        \/ last'.err # Ok /\ UNCHANGED <<prefixes, ips>>
        \/ ~IsDuplicateCreate

\* C7: (namespace, network, prefix_length) is unique over the stored
\* prefixes in every reachable state, and creating a duplicate is rejected
\* without adding a prefix or changing any parent.
C7_UniquePrefixAndDuplicateRejected ==
    []C7_Unique /\ [][C7_DuplicateRejected]_vars

\* A duplicate creation was just rejected while a prefix with a child prefix
\* and a child IPAddress was stored.
C7_Witness ==
    /\ last = Result("create_prefix", IntegrityError, "none")
    /\ \E p \in prefixes : ChildPrefixes(p, prefixes) # {} /\ ChildIPs(p, ips) # {}

\* C8: saving a new IPAddress built with neither a namespace nor a parent
\* fails with the validation error keyed "parent" and stores nothing; built
\* with a parent alone, it is stored in that parent's namespace.
C8_NamespaceMustBeResolvable ==
    [][last'.op = "create_ip" =>
        /\ \/ last'.err = ValidationErrorParent /\ UNCHANGED <<prefixes, ips>>
           \/ \A version \in IPAddressVersionChoices, host \in Addrs :
                ~CreateIP(version, host, NoNamespace, None)
        /\ last'.err = Ok =>
            /\ Cardinality(ips' \ ips) = 1
            /\ \A a \in ips' \ ips, P \in prefixes :
                CreateIP(a.ip_version, a.host, NoNamespace, PrefixId(P))
                => /\ a.namespace0 = P.namespace
                   /\ a.parent.namespace = P.namespace]_vars

\* The save of an address built without namespace and parent was just
\* refused, with prefixes stored in both namespaces.
C8_Witness ==
    /\ last = Result("create_ip", ValidationErrorParent, "none")
    /\ {p.namespace : p \in prefixes} = Namespaces

\* C9: the namespace of an IPAddress never changes: its parent is always a
\* stored prefix of the namespace resolved when the address was first saved.
C9_IPNamespaceImmutable ==
    \A a \in ips :
        /\ a.parent \in Ids(prefixes)
        /\ a.parent.namespace = a.namespace0

\* A deletion has just moved child addresses to the deleted prefix's parent,
\* with prefixes stored in both namespaces.
C9_Witness ==
    /\ last = Result("delete_prefix", Ok, "IPAddress")
    /\ ips # {}
    /\ {p.namespace : p \in prefixes} = Namespaces

\* C10: get_available_ips() returns the prefix's whole range minus the
\* hosts of its child IPAddresses, minus the first and last address exactly
\* when the prefix is IPv4, not a pool and shorter than /31.  An empty
\* non-pool IPv4 /30 yields its two middle addresses, a /31 both addresses.
C10_AvailableIPs ==
    available.called =>
        LET p == RowOf(available.prefix, prefixes)
            range == {h \in Addrs : p.network <= h /\ h <= p.broadcast}
            used == {a.host : a \in {b \in ips : b.parent = available.prefix}}
            reserved == IF p.ip_version = 4 /\ p.type # TYPE_POOL /\ p.prefix_length < 31
                        THEN {p.network, p.broadcast}
                        ELSE {}
        IN /\ available.ips = (range \ used) \ reserved
           /\ (p.ip_version = 4 /\ p.prefix_length = 30 /\ p.type # TYPE_POOL /\ used = {})
                => available.ips = {p.network + 1, p.network + 2}
           /\ (p.ip_version = 4 /\ p.prefix_length = 31 /\ used = {})
                => available.ips = {p.network, p.network + 1}

\* get_available_ips() was called on an empty non-pool IPv4 /30.
C10_Witness ==
    /\ available.called
    /\ available.prefix.ip_version = 4
    /\ available.prefix.prefix_length = 30
    /\ RowOf(available.prefix, prefixes).type = TYPE_NETWORK
    /\ ips = {}
    /\ Cardinality(available.ips) = 2

\* C11: for a prefix that is not a container, get_utilization() returns as
\* numerator the number of child IPAddresses of the prefix and as denominator
\* the prefix's size, less 2 when the prefix is IPv4, not a pool and shorter
\* than /31; for every set of child addresses, a child at the prefix's first
\* or last address included.
C11_UtilizationCountsChildIPs ==
    utilization.called =>
        LET p == RowOf(utilization.prefix, prefixes)
        IN p.type # TYPE_CONTAINER =>
            /\ utilization.data.numerator = Cardinality(ChildIPs(p, ips))
            /\ utilization.data.denominator =
                    IF p.ip_version = 4 /\ p.type # TYPE_POOL /\ p.prefix_length < 31
                    THEN PrefixSize(p) - 2
                    ELSE PrefixSize(p)

\* C12: reading a prefix built from a CIDR literal as the string
\* "network/prefix_length" and parsing that string again gives the same
\* network, broadcast, prefix_length and ip_version, also when the literal
\* had host bits set.
C12_CidrRoundTrip ==
    reparsed.called =>
        LET p == RowOf(reparsed.prefix, prefixes)
        IN /\ reparsed.fields.network = p.network
           /\ reparsed.fields.broadcast = p.broadcast
           /\ reparsed.fields.prefix_length = p.prefix_length
           /\ reparsed.fields.ip_version = p.ip_version

\* An IPv6 /126 built from a literal with host bits set was read and set again.
C12_Witness ==
    /\ reparsed.called
    /\ reparsed.prefix.ip_version = 6
    /\ reparsed.prefix.prefix_length = 126
    /\ reparsed.literal_ip # reparsed.prefix.network
    /\ reparsed.fields.network = reparsed.prefix.network

\* ------------------------------------------------------- cable claims
UNCABLED == "UNCABLED"
CABLED == "CABLED"

\* The state of a termination: CABLED when a CableEnd references it.
StateOf(t, endRows) ==
    IF \E e \in endRows : e.cable_termination = t.id THEN CABLED ELSE UNCABLED

\* What creating a cable between terminations ta and tb would do here.
Attach(ta, tb, length, length_unit) ==
    validated_save(Ref(ta), Ref(tb), length, length_unit, cables, cable_ends)

PassesOtherChecks(ta, tb, length, length_unit) ==
    /\ ~(ta.model = "interface" /\ ta.type \in NONCONNECTABLE_IFACE_TYPES)
    /\ ~(tb.model = "interface" /\ tb.type \in NONCONNECTABLE_IFACE_TYPES)
    /\ ~(/\ ta.model = "rearport" /\ tb.model = "rearport"
         /\ ta.positions > 1 /\ tb.positions > 1 /\ ta.positions # tb.positions)
    /\ ~(ta.rear_port = tb.id \/ tb.rear_port = ta.id)
    /\ ~(ta.model = "circuittermination" /\ ta.provider_network)
    /\ ~(tb.model = "circuittermination" /\ tb.provider_network)
    /\ ~(length # NoLength /\ length_unit = "")

\* Attaching to a termination that has a cable fails and changes nothing.
C14_AttachToCabledFails ==
    \A ta, tb \in Terminations, length \in CableLengths, length_unit \in LengthUnits :
        (StateOf(ta, cable_ends) = CABLED \/ StateOf(tb, cable_ends) = CABLED) =>
            LET out == Attach(ta, tb, length, length_unit)
            IN /\ out.last.err = ValidationError
               /\ out.cables = cables
               /\ out.cable_ends = cable_ends

\* A termination is referenced by no CableEnd or by one.
C14_TwoStates ==
    \A t \in Terminations :
        Cardinality({e \in cable_ends : e.cable_termination = t.id}) <= 1

\* The attachment succeeded and made both terminations CABLED.
Attached(ta, tb, out) ==
    /\ out.last.err = Ok
    /\ StateOf(ta, out.cable_ends) = CABLED
    /\ StateOf(tb, out.cable_ends) = CABLED
    /\ \A t \in Terminations \ {ta, tb} :
            StateOf(t, out.cable_ends) = StateOf(t, cable_ends)

IsDetachOf(t) ==
    /\ cable_last'.op = "detach"
    /\ Detach(t)

C16_IncompatibleKindsNeverCabled ==
    /\ \A ta, tb \in Terminations, length \in CableLengths, length_unit \in LengthUnits :
        tb.model \notin COMPATIBLE_TERMINATION_TYPES[ta.model] =>
            LET out == Attach(ta, tb, length, length_unit)
            IN /\ out.last.err = ValidationError
               /\ out.cables = cables
               /\ out.cable_ends = cable_ends
    /\ \A c \in cables :
        c.termination_b.type \in COMPATIBLE_TERMINATION_TYPES[c.termination_a.type]

\* A cable between incompatible kinds was just refused while a cable exists.
C16_Witness ==
    /\ cable_last.op = "create_cable"
    /\ cable_last.msg = MsgIncompatible
    /\ cables # {}

\* C17: validating a cable between two front/rear ports fails when either
\* termination's rear_port is the other termination, whichever of the two is
\* on side A.
C17_FrontPortNotToItsRearPort ==
    /\ \A ta, tb \in Terminations, length \in CableLengths, length_unit \in LengthUnits :
        (/\ ta.model \in {"frontport", "rearport"}
         /\ tb.model \in {"frontport", "rearport"}
         /\ (ta.rear_port = tb.id \/ tb.rear_port = ta.id))
        => LET out == Attach(ta, tb, length, length_unit)
           IN /\ out.last.err = ValidationError
              /\ out.cables = cables
              /\ out.cable_ends = cable_ends
    /\ \A c \in cables :
        /\ Termination(c.termination_a).rear_port # c.termination_b.id
        /\ Termination(c.termination_b).rear_port # c.termination_a.id

\* A cable between a front port and its rear port was just refused while
\* another cable exists.
C17_Witness ==
    /\ cable_last.op = "create_cable"
    /\ cable_last.msg = MsgFrontRear
    /\ cables # {}

\* A circuit termination bound to a provider network.
OnProviderNetwork(ref) ==
    /\ Exists(ref)
    /\ Termination(ref).model = "circuittermination"
    /\ Termination(ref).provider_network

\* No stored cable ends at a circuit termination of a provider network.
C18_NeverCabled ==
    \A c \in cables :
        ~OnProviderNetwork(c.termination_a) /\ ~OnProviderNetwork(c.termination_b)

\* C18 as stated: a cable to a circuit termination bound to a provider
\* network fails, on side A or side B, with a validation error keyed by that
\* side's termination id field; no cable is ever created with such an end.
C18_ProviderNetworkAsStated ==
    /\ C18_NeverCabled
    /\ \A a, b \in Refs, length \in CableLengths, length_unit \in LengthUnits :
        (OnProviderNetwork(a) \/ OnProviderNetwork(b)) =>
            LET out == validated_save(a, b, length, length_unit, cables, cable_ends)
            IN /\ out.last.err = ValidationError
               /\ out.cables = cables
               /\ out.cable_ends = cable_ends
               /\ \/ OnProviderNetwork(a) /\ out.last.key = "termination_a_id"
                  \/ OnProviderNetwork(b) /\ out.last.key = "termination_b_id"

\* The checks that run before the provider-network check pass: both
\* references resolve, neither is a non-connectable interface, the kinds
\* are compatible and the two terminations are distinct.
PassesEarlierChecks(a, b) ==
    /\ Exists(a)
    /\ Exists(b)
    /\ ~(a.type = "interface" /\ Termination(a).type \in NONCONNECTABLE_IFACE_TYPES)
    /\ ~(b.type = "interface" /\ Termination(b).type \in NONCONNECTABLE_IFACE_TYPES)
    /\ b.type \in COMPATIBLE_TERMINATION_TYPES[a.type]
    /\ a # b

\* C18 (amended): such a cable always fails validation and none is ever
\* stored; the error is keyed by the side's termination id field (side A's
\* when both sides are such terminations) whenever the checks that precede
\* it pass.
C18_ProviderNetwork ==
    /\ C18_NeverCabled
    /\ \A a, b \in Refs, length \in CableLengths, length_unit \in LengthUnits :
        (OnProviderNetwork(a) \/ OnProviderNetwork(b)) =>
            LET out == validated_save(a, b, length, length_unit, cables, cable_ends)
            IN /\ out.last.err = ValidationError
               /\ out.cables = cables
               /\ out.cable_ends = cable_ends
               /\ PassesEarlierChecks(a, b) =>
                    out.last.key = IF OnProviderNetwork(a)
                                   THEN "termination_a_id"
                                   ELSE "termination_b_id"

\* A cable whose side B is on a provider network was just refused while a
\* cable exists.
C18_Witness ==
    /\ cable_last.op = "create_cable"
    /\ cable_last.msg = MsgProviderNetwork
    /\ cable_last.key = "termination_b_id"
    /\ cables # {}

\* C19: every validation failure of validating a cable or saving an
\* IPAddress is keyed by the offending field, never a bare message.
C19_ValidationErrorsAreKeyed ==
    /\ cable_last.err = ValidationError => cable_last.key # NoKey
    /\ last.op \in {"create_ip", "save_ip"} =>
            last.err \in {Ok, IntegrityError, DoesNotExist, AttributeError, ValidationErrorParent}

\* C20: under any interleaving of two concurrent prefix creations in one
\* namespace, once both have completed every prefix's parent is its most
\* specific enclosing prefix (neither insertion acted on a stale parent).
C20_ConcurrentCreationsLeaveNoStaleParent ==
    (\A s \in Sessions : sessions[s].pc \in {"idle", "done"}) =>
        \A p \in prefixes :
            LET enc == Enclosers(p, prefixes)
            IN IF enc = {}
               THEN p.parent = None
               ELSE /\ p.parent \in Ids(enc)
                    /\ \A r \in enc : r.prefix_length <= p.parent.prefix_length

\* The terminations a cable instance or row names.
EndsOf(c) == {c.termination_a, c.termination_b}

\* C21: under any interleaving of two concurrent cable attachments that name
\* the same termination, at most one succeeds, and in no reachable state is
\* the termination an end of both cables: no two sessions have both saved
\* cables that share a termination, no two CableEnd rows reference one
\* termination, and once both attachments have returned no two stored cables
\* name the same termination.
C21_ConcurrentAttachmentsShareNoTermination ==
    /\ \A s, t \in Sessions :
        (/\ s # t
         /\ sessions[s].pc = "done" /\ sessions[s].err = Ok
         /\ sessions[t].pc = "done" /\ sessions[t].err = Ok)
        => EndsOf(sessions[s].self) \cap EndsOf(sessions[t].self) = {}
    /\ \A e, f \in cable_ends : e.cable_termination = f.cable_termination => e = f
    /\ (\A s \in Sessions : sessions[s].pc \in {"idle", "done"}) =>
            \A c, d \in cables : c.pk # d.pk => EndsOf(c) \cap EndsOf(d) = {}

\* The references of the addresses whose nat_inside is the address ref.
Referencing(ref, rows) == {IPRef(a) : a \in {b \in rows : b.nat_inside = ref}}

\* What the last read of nat_outside returned fits the table.
C22_Getter ==
    nat_result.op = "get" =>
        LET outside == Referencing(nat_result.self, ips)
        IN /\ Cardinality(outside) = 0 =>
                nat_result.err = Ok /\ nat_result.value = NoIP
           /\ Cardinality(outside) = 1 =>
                nat_result.err = Ok /\ outside = {nat_result.value}
           /\ Cardinality(outside) >= 2 =>
                /\ nat_result.err = NATOutsideMultipleObjectsReturned
                /\ nat_result.obj = nat_result.self

\* Setting nat_outside of an address that two or more addresses reference
\* raises the error and changes nothing.
C22_Setter ==
    (/\ nat_result'.op = "set"
     /\ Cardinality(Referencing(nat_result'.self, ips)) >= 2)
    => /\ nat_result'.err = NATOutsideMultipleObjectsReturned
       /\ nat_result'.obj = nat_result'.self
       /\ ips' = ips

\* C22: several addresses may reference one inside address through
\* nat_inside; reading nat_outside returns null when no address references
\* the queried one, the referencing address when exactly one does, and
\* raises NATOutsideMultipleObjectsReturned carrying the queried object when
\* two or more do; the setter raises the same error in that case and changes
\* nothing.
C22_NatOutsideSingleValuedAccessor ==
    []C22_Getter /\ [][C22_Setter]_vars

\* nat_outside was read on an address that two others reference, and the
\* error carrying it was raised.
C22_Witness ==
    /\ nat_result.op = "get"
    /\ nat_result.err = NATOutsideMultipleObjectsReturned
    /\ nat_result.obj = nat_result.self
    /\ Cardinality(Referencing(nat_result.self, ips) \ {nat_result.self}) = 2

\* C23: in every reachable state, the state the migrations leave included,
\* (cable, cable_side, position) is unique over the CableEnd rows.
C23_CableSidePositionUnique ==
    \A e, f \in cable_ends :
        (e.cable = f.cable /\ e.cable_side = f.cable_side /\ e.position = f.position)
            => e = f

\* The CableEnd at position 0 of each side of a cable as it was before the
\* migrations.
LegacyEnds(c) ==
    {[cable |-> c.pk, cable_termination |-> c.termination_a.id, cable_side |-> "a", position |-> 0],
     [cable |-> c.pk, cable_termination |-> c.termination_b.id, cable_side |-> "b", position |-> 0]}

\* C27: after the migrations have run in their dependency order, every cable
\* that existed beforehand has a CableEnd at position 0 on side a for its
\* legacy termination A and one on side b for its legacy termination B,
\* whatever the kinds of its terminations; and when the CableEnd population
\* step (dcim 0089) is next to run, the CableTermination row of every such
\* termination is there.
C27_MigrationPopulatesBothCableEnds ==
    /\ applied = Migrations =>
            \A c \in legacy_cables : LegacyEnds(c) \subseteq cable_ends
    /\ ("dcim.0088" \in applied /\ "dcim.0089" \notin applied) =>
            \A c \in legacy_cables :
                {c.termination_a.id, c.termination_b.id} \subseteq cable_terminations

\* ------------------------------------------------------------------- C24
\* The stored-row operations a session has attempted, by kind of request.
Deleting(s) == "protected_model" \in DOMAIN sessions[s]

\* C24: Prefix.delete() terminates after at most two deletion attempts: the
\* first, and one retry only after a ProtectedError whose children were
\* reparented; a failed retry is not retried, and a save is attempted once.
C24_AttemptsBounded ==
    \A s \in Sessions :
        LET r == sessions[s]
        IN /\ r.attempts <= (IF Deleting(s) THEN 2 ELSE 1)
           /\ Deleting(s) /\ r.attempts = 2 => r.pc = "done" /\ r.protected_model # "none"
           /\ Deleting(s) /\ r.pc = "retry" => r.attempts = 1
           /\ Deleting(s) /\ r.pc = "done" /\ r.err = ProtectedErrorOrphan => r.attempts = 1

C24_DeleteTerminatesWithinTwoAttempts ==
    /\ []C24_AttemptsBounded
    /\ \A s \in Sessions : (sessions[s].pc = "delete") ~> (sessions[s].pc = "done")

\* A retry that failed on a remaining protected child, and was the last.
C24_Witness ==
    \E s \in Sessions :
        /\ Deleting(s)
        /\ sessions[s].pc = "done"
        /\ sessions[s].err = ProtectedError
        /\ sessions[s].attempts = 2
        /\ sessions[s].self \in prefixes

\* ------------------------------------------------------------------- C25
\* The stored prefixes and addresses that lie within the stored prefix P and
\* still have P's parent as their parent.
StillUnderParent(P) ==
    {q \in prefixes : Encloses(P, q) /\ q.parent = P.parent}
    \cup {a \in ips : /\ a.parent = P.parent
                      /\ a.ip_version = P.ip_version
                      /\ a.host >= P.network
                      /\ a.host <= P.broadcast}

\* Session s has stored its new prefix (the INSERT of save() went through).
Persisted(s) ==
    /\ ~Deleting(s)
    /\ sessions[s].pc \in {"reparent_subnets", "reparent_ips", "done"}
    /\ sessions[s].err = Ok

\* Session s's delete() is over and its prefix is still stored.
DeleteFailed(s) ==
    /\ Deleting(s)
    /\ sessions[s].pc = "done"
    /\ \E q \in prefixes : PrefixId(q) = PrefixId(sessions[s].self)

\* No state holds a new prefix whose subnets or addresses still point to its
\* parent.
C25_SaveIsOneUnit ==
    \A s \in Sessions : Persisted(s) => StillUnderParent(sessions[s].self) = {}

\* No failed delete() leaves a child of its prefix reparented.
C25_DeleteIsOneUnit ==
    \A s \in Sessions :
        DeleteFailed(s) =>
            /\ \A q \in prefixes :
                    PrefixId(q) \in sessions[s].protected_prefixes
                        => q.parent = PrefixId(sessions[s].self)
            /\ sessions[s].protected_ips \subseteq ips

\* C25: saving a prefix and reparenting its subnets and addresses, and
\* deleting a prefix and reparenting its children, are each one unit of
\* work: no state shows the one without the other.
C25_SaveAndDeleteAreUnitsOfWork == C25_SaveIsOneUnit /\ C25_DeleteIsOneUnit

\* ------------------------------------------------------------------- C26
\* C26: every save of a stored prefix recomputes the parent: null when no
\* other prefix encloses the saved CIDR in the saved namespace, else the
\* most specific enclosing prefix.
C26_SaveRecomputesParent ==
    \A P \in prefixes, ns \in Namespaces, ip \in Addrs, prefixlen \in Lengths(4) :
        LET out == save_existing(P, ns, ip, prefixlen, prefixes, ips)
            enclosing == Enclosers(out.self, out.prefixes)
        IN out.err = Ok =>
            IF enclosing = {}
            THEN out.self.parent = None
            ELSE out.self.parent = PrefixId(MaxByPrefixLength(enclosing))

\* ------------------------------------------------------------------- C28
\* Every edit that assigns another termination A or B to a stored cable
\* fails validation with an error keyed termination_a or termination_b.
C28_ModifiedTerminationRejected ==
    \A c \in cables, a \in EditRefs, b \in EditRefs :
        \A length \in CableLengths, length_unit \in LengthUnits :
            LET out == validated_edit(c, a, b, length, length_unit, cables, cable_ends)
            IN a # c.termination_a \/ b # c.termination_b =>
                /\ out.last.err = ValidationError
                /\ out.last.key \in {"termination_a", "termination_b"}
                /\ out.cables = cables

\* A cable that stays stored keeps its pair of terminations.
C28_PairKept ==
    \A c \in cables, d \in cables' :
        d.pk = c.pk => d.termination_a = c.termination_a /\ d.termination_b = c.termination_b

\* C28: the terminations of a persisted cable never change: an edit with
\* another termination A or B fails with an error keyed termination_a or
\* termination_b, and over validated edits a cable keeps its (A, B) pair.
C28_TerminationsImmutable == []C28_ModifiedTerminationRejected /\ [][C28_PairKept]_vars

\* ------------------------------------------------------------------- C29
\* Following parent pointers from p reaches a prefix without parent within
\* n steps.
RECURSIVE ReachesRoot(_, _)
ReachesRoot(p, n) ==
    IF p.parent = None THEN TRUE
    ELSE IF n = 0 THEN FALSE
    ELSE ReachesRoot(RowOf(p.parent, prefixes), n - 1)

\* C29: over Prefix creations and deletions the parent pointers form a
\* forest: a prefix's parent is a stored prefix of its namespace and IP
\* version that contains it and has a smaller prefix_length, and the chain
\* of parents of every prefix ends at a root.
C29_ParentsFormForest ==
    /\ \A p \in prefixes :
            p.parent # None =>
                \E q \in prefixes :
                    /\ PrefixId(q) = p.parent
                    /\ q.namespace = p.namespace
                    /\ q.ip_version = p.ip_version
                    /\ q.network <= p.network
                    /\ q.broadcast >= p.broadcast
                    /\ q.prefix_length < p.prefix_length
    /\ \A p \in prefixes : ReachesRoot(p, Cardinality(prefixes))

\* A deletion has moved a child prefix up to its grandparent.
C29_Witness ==
    /\ last = Result("delete_prefix", Ok, "Prefix")
    /\ \E p \in prefixes : p.parent # None

\* ------------------------------------------------------------------- C30
\* The table after creating the prefixes of S from least to most specific,
\* starting from the table rows.
RECURSIVE CreateLeastSpecificFirst(_, _)
CreateLeastSpecificFirst(S, rows) ==
    IF S = {} THEN rows
    ELSE LET p == CHOOSE x \in S : \A y \in S : x.prefix_length <= y.prefix_length
         IN CreateLeastSpecificFirst(S \ {p}, save_new(p, rows))

\* C30: whatever the order in which the stored prefixes were created, every
\* prefix has the parent it has when the same prefixes are created from
\* least to most specific.
C30_ParentsIndependentOfCreationOrder ==
    sessions["s1"].pc \in {"idle", "done"} =>
        prefixes = CreateLeastSpecificFirst({[p EXCEPT !.parent = None] : p \in prefixes}, {})

\* A prefix created after a more specific one, which it took as its child,
\* between a less specific one and that child.
C30_Witness ==
    LET self == sessions["s1"].self
    IN /\ sessions["s1"].pc = "done"
       /\ sessions["s1"].err = Ok
       /\ self.parent # None
       /\ \E q \in prefixes : q.parent = PrefixId(self)

====
